---- MODULE Spec2Model ----
(***************************************************************************)
(* Vision-capable model abstraction and dispatch layer                     *)
(* (deepdoc/depend/simple_cv_model.py), and the download of NLTK resources *)
(* (deepdoc/depend/nltk_manager.py).                                       *)
(*                                                                         *)
(* Text is a sequence of tokens, so that "+" on Python strings is \o and   *)
(* "begins with" is a statement about Head.  A Python dict is a function   *)
(* on the set of its keys; a missing key is a key outside DOMAIN.          *)
(***************************************************************************)
EXTENDS Integers, Sequences, FiniteSets, TLC

VARIABLES
    inst,       \* the constructed backend instance (self)
    args,       \* the caller's arguments of the current call, as given
    backend,    \* what the transport will answer: a scripted fake backend
    history,    \* the caller's conversation list, which chat writes in place
    op,         \* the contract operation the caller invoked, "none" before
    result,     \* what a describe / describe_with_prompt / chat call gave back
    sent,       \* the requests the transport client received, in order
    gpos,       \* chat_streamly's generator: where it is suspended
    ans,        \* chat_streamly's local accumulator
    consumed,   \* chat_streamly: chunks taken from the response iterator
    events,     \* chat_streamly: the events yielded to the caller, in order
    img,        \* the caller's image object; reading a stream moves its position
    world,      \* the process: os.environ, the files, the installed packages
    constructed, \* the backend constructors invoked, in order
    _download_lock,        \* nltk_manager: the thread holding the lock, 0 if free
    _downloaded_resources, \* nltk_manager: the download names already tried
    cache,      \* the lru_cache of ensure_nltk_resource: arguments -> result
    nltk_data,  \* the resource paths nltk.data.find locates
    frames,     \* the threads calling into nltk_manager: their call frames
    downloads,  \* nltk.download: invocations per name, and the calls in flight
    returned    \* the values ensure_nltk_resource has returned, per arguments

vars ==
    <<inst, args, backend, history, op, result, sent, gpos, ans, consumed, events,
      img, world, constructed,
      _download_lock, _downloaded_resources, cache, nltk_data, frames, downloads,
      returned>>

\* the state of simple_cv_model's callers, which nltk_manager does not touch
cvars ==
    <<inst, args, backend, history, op, result, sent, gpos, ans, consumed, events,
      img, world, constructed>>

\* the state of nltk_manager, which no call into simple_cv_model touches
nvars ==
    <<_download_lock, _downloaded_resources, cache, nltk_data, frames, downloads,
      returned>>

\* what the contract operations other than the hosted describe_with_prompt leave alone
fvars == <<img, world, constructed>>

----------------------------------------------------------------------------
(* Bounds of the model *)

MaxTurns == 2
MaxChunks == 3
MaxBytes == 3
MaxCalls == 2

\* calls into nltk_manager made by all threads together
MaxEnsureCalls == 3

SeqsUpTo(S, n) == UNION {[1..k -> S] : k \in 0..n}

----------------------------------------------------------------------------
(* Python values *)

Get(d, k, dflt) == IF k \in DOMAIN d THEN d[k] ELSE dflt

SetKey(d, k, v) == [x \in (DOMAIN d) \cup {k} |-> IF x = k THEN v ELSE d[x]]

EmptyDict == [x \in {} |-> 0]

\* nltk_manager as imported: lock free, nothing tried, nothing cached, no caller
NltkIdle ==
    /\ _download_lock = 0
    /\ _downloaded_resources = {}
    /\ cache = EmptyDict
    /\ nltk_data = {}
    /\ frames = EmptyDict
    /\ downloads = [calls |-> EmptyDict, active |-> {}]
    /\ returned = EmptyDict

\* str(e): the exception's text
Str(e) == <<e>>

RECURSIVE LStrip(_)
LStrip(s) == IF s # <<>> /\ Head(s) = " " THEN LStrip(Tail(s)) ELSE s

RECURSIVE RStrip(_)
RStrip(s) ==
    IF s # <<>> /\ s[Len(s)] = " " THEN RStrip(SubSeq(s, 1, Len(s) - 1)) ELSE s

\* str.strip()
Strip(s) == RStrip(LStrip(s))

ERROR_MARK == "**ERROR**: "

\* results of a call, as the caller sees them
NoResult == [kind |-> "none"]
Pair(t, u, c) == [kind |-> "pair", text |-> t, usage |-> u, caught |-> c]
Bare(t, c) == [kind |-> "bare", text |-> t, caught |-> c]
Raised(e) == [kind |-> "raise", exc |-> e]

\* events of a stream, told apart by runtime type
TextEv(s) == [kind |-> "text", v |-> s]
IntEv(n) == [kind |-> "int", v |-> n]

----------------------------------------------------------------------------
(* Classes and the provider registry *)

_PROVIDERS ==
    [openai |-> "GptV4", qwen |-> "QWenCV", zhipu |-> "Zhipu4V",
     ollama |-> "OllamaCV", gemini |-> "GeminiCV", anthropic |-> "AnthropicCV"]

Classes == {_PROVIDERS[p] : p \in DOMAIN _PROVIDERS}

BaseMethods == {"image2base64", "prompt", "vision_llm_prompt"}

\* the attributes a class defines or inherits from Base
Methods(cls) ==
    BaseMethods \cup
    (IF cls = "OllamaCV"
        THEN {"describe", "describe_with_prompt", "chat", "chat_streamly"}
        ELSE {"describe_with_prompt"})

Langs == {"Chinese", "English"}

\* str.lower() on the language names of the model
Lower(l) ==
    CASE l = "Chinese" -> "chinese"
      [] l = "English" -> "english"
      [] l = "QWEN" -> "qwen"
      [] l = "Ollama" -> "ollama"
      [] OTHER -> l

Instances == [cls : Classes, model_name : {"model-x"}, lang : Langs]

----------------------------------------------------------------------------
(* Base *)

\* the name imported from .prompts is a callable, not a text
vision_llm_describe_prompt == [kind |-> "function"]

vision_llm_prompt(self, image) ==
    IF Lower(self.lang) = "chinese"
        THEN vision_llm_describe_prompt
        ELSE [kind |-> "str", text |-> <<"Please describe this image in detail.">>]

prompt(self, image) == vision_llm_prompt(self, image)

\* An image is [kind, data, pos]: an io.BytesIO with its read position, a
\* bytes object, or a decoded PIL image; data are the encoded file's bytes.
B64Alphabet ==
    <<
      "A", "B", "C", "D", "E", "F", "G", "H", "I", "J", "K", "L", "M", "N", "O", "P",
      "Q", "R", "S", "T", "U", "V", "W", "X", "Y", "Z", "a", "b", "c", "d", "e", "f",
      "g", "h", "i", "j", "k", "l", "m", "n", "o", "p", "q", "r", "s", "t", "u", "v",
      "w", "x", "y", "z", "0", "1", "2", "3", "4", "5", "6", "7", "8", "9", "+", "/"
    >>

B64Char(sextet) == B64Alphabet[sextet + 1]

\* base64.b64encode(img_data).decode('utf-8'): 3 bytes to 4 characters,
\* the last group padded with "="
RECURSIVE b64encode(_)
b64encode(d) ==
    IF Len(d) = 0 THEN <<>>
    ELSE IF Len(d) = 1 THEN
        LET n == d[1] * 16 IN
        <<B64Char(n \div 64), B64Char(n % 64), "=", "=">>
    ELSE IF Len(d) = 2 THEN
        LET n == (d[1] * 256 + d[2]) * 4 IN
        <<B64Char(n \div 4096), B64Char((n \div 64) % 64), B64Char(n % 64), "=">>
    ELSE
        LET n == d[1] * 65536 + d[2] * 256 + d[3] IN
        <<B64Char(n \div 262144), B64Char((n \div 4096) % 64),
          B64Char((n \div 64) % 64), B64Char(n % 64)>>
            \o b64encode(SubSeq(d, 4, Len(d)))

\* binary.read() of a stream at position p; the position ends at the end
ReadFrom(data, p) == SubSeq(data, p + 1, Len(data))

\* Base.image2base64; "after" is the caller's object once the call is over
image2base64(binary) ==
    IF binary.kind = "BytesIO"
        THEN [exc |-> "none", b64 |-> b64encode(ReadFrom(binary.data, 0)),
              after |-> [binary EXCEPT !.pos = Len(binary.data)]]
    ELSE IF binary.kind = "bytes"
        THEN [exc |-> "none", b64 |-> b64encode(binary.data), after |-> binary]
    ELSE [exc |-> "ValueError", after |-> binary]

\* p[0]["content"][1]["text"]: defined on a message list only
PromptText(p) ==
    IF p.kind = "messages"
        THEN [exc |-> "none", text |-> p.text]
        ELSE [exc |-> "TypeError"]

----------------------------------------------------------------------------
(* The scripted backend: what the transport call answers *)

BackendError == "ConnectionError"

\* the sentinel text of a caught exception
ErrorText(e) == <<ERROR_MARK>> \o Str(e)

\* GptV4, QWenCV, Zhipu4V, GeminiCV, AnthropicCV: the same body up to the wire format
QWenCV_describe_with_prompt(self, image, p, be) ==
    LET b == image2base64(image) IN
    IF b.exc # "none"
        THEN [result |-> Bare(ErrorText(b.exc), b.exc), sent |-> <<>>, image |-> b.after]
        ELSE LET text == IF p # <<>> THEN [kind |-> "str", text |-> p]
                                     ELSE prompt(self, image)
                 req == [call |-> "completions", model |-> self.model_name,
                         prompt |-> text, image |-> b.b64]
             IN  IF be.reply.raises
                     THEN [result |-> Bare(ErrorText(BackendError), BackendError),
                           sent |-> <<req>>, image |-> b.after]
                     ELSE [result |-> Bare(Strip(be.reply.content), "none"),
                           sent |-> <<req>>, image |-> b.after]

----------------------------------------------------------------------------
(* OllamaCV *)

\* client.generate(...) inside the try of describe and describe_with_prompt
OllamaCV_generate(self, vision_prompt, image, be) ==
    LET t == PromptText(vision_prompt) IN
    IF t.exc # "none"
        THEN [result |-> Pair(ErrorText(t.exc), 0, t.exc), sent |-> <<>>]
        ELSE LET req == [call |-> "generate", model |-> self.model_name,
                         prompt |-> t.text, images |-> <<image>>]
             IN  IF be.reply.raises
                     THEN [result |-> Pair(ErrorText(BackendError), 0, BackendError),
                           sent |-> <<req>>]
                     ELSE [result |-> Pair(Strip(be.reply.content), 128, "none"),
                           sent |-> <<req>>]

OllamaCV_describe(self, image, be) ==
    OllamaCV_generate(self, prompt(self, <<>>), image, be)

\* a truthy prompt is passed to vision_llm_prompt as a third positional
\* argument, which it does not take: TypeError, before the try
OllamaCV_describe_with_prompt(self, image, p, be) ==
    IF p # <<>>
        THEN [result |-> Raised("TypeError"), sent |-> <<>>]
        ELSE OllamaCV_generate(self, vision_llm_prompt(self, <<>>), image, be)

\* a slip that would leave an already rewritten turn alone
rewrite_last_once(system, hist) ==
    IF system = <<>> THEN [history |-> hist, exc |-> "none"]
    ELSE IF Len(hist) = 0 THEN [history |-> hist, exc |-> "IndexError"]
    ELSE IF "content" \notin DOMAIN hist[Len(hist)]
        THEN [history |-> hist, exc |-> "KeyError"]
    ELSE LET c == hist[Len(hist)]["content"] IN
         IF Len(system) <= Len(c) /\ SubSeq(c, 1, Len(system)) = system
             THEN [history |-> hist, exc |-> "none"]
             ELSE [history |-> [hist EXCEPT ![Len(hist)] =
                                  SetKey(@, "content",
                                         system \o c \o <<"user query: ">> \o c)],
                   exc |-> "none"]

\* if system: history[-1]["content"] = system + ... (before the try)
rewrite_last(system, hist) ==
    IF system = <<>> THEN [history |-> hist, exc |-> "none"]
    ELSE IF Len(hist) = 0 THEN [history |-> hist, exc |-> "IndexError"]
    ELSE IF "content" \notin DOMAIN hist[Len(hist)]
        THEN [history |-> hist, exc |-> "KeyError"]
    ELSE LET c == hist[Len(hist)]["content"] IN
         [history |-> [hist EXCEPT ![Len(hist)] =
                          SetKey(@, "content", system \o c \o <<"user query: ">> \o c)],
          exc |-> "none"]

\* for his in history: if his["role"] == "user": his["images"] = [image]
RECURSIVE attach_images(_, _, _)
attach_images(hist, i, image) ==
    IF i > Len(hist) THEN [history |-> hist, exc |-> "none"]
    ELSE IF "role" \notin DOMAIN hist[i] THEN [history |-> hist, exc |-> "KeyError"]
    ELSE attach_images(
            IF hist[i]["role"] = "user"
                THEN [hist EXCEPT ![i] = SetKey(@, "images", <<image>>)]
                ELSE hist,
            i + 1, image)

\* the knob an entry of gen_conf is forwarded as
OptionKey(k) == IF k = "top_p" THEN "top_k" ELSE k

ForwardedKnobs == {"temperature", "top_p", "presence_penalty", "frequency_penalty"}

\* options = {}; if "temperature" in gen_conf: ...
build_options(gen_conf) ==
    LET ks == (DOMAIN gen_conf) \cap ForwardedKnobs IN
    [o \in {OptionKey(k) : k \in ks} |->
        gen_conf[CHOOSE k \in ks : OptionKey(k) = o]]

ChatRequest(self, hist, gen_conf, stream) ==
    [call |-> "chat", model |-> self.model_name, messages |-> hist,
     options |-> build_options(gen_conf), stream |-> stream, keep_alive |-> -1]

OllamaCV_chat(self, system, hist, gen_conf, image, be) ==
    LET r == rewrite_last(system, hist) IN
    IF r.exc # "none"
        THEN [result |-> Raised(r.exc), history |-> r.history, sent |-> <<>>]
    ELSE
    LET a == attach_images(r.history, 1, image) IN
    IF a.exc # "none"
        THEN [result |-> Pair(ErrorText(a.exc), 0, a.exc),
              history |-> a.history, sent |-> <<>>]
    ELSE
    LET req == ChatRequest(self, a.history, gen_conf, FALSE) IN
    IF be.reply.raises
        THEN [result |-> Pair(ErrorText(BackendError), 0, BackendError),
              history |-> a.history, sent |-> <<req>>]
    ELSE IF "eval_count" \notin DOMAIN be.reply
        THEN [result |-> Pair(ErrorText("KeyError"), 0, "KeyError"),
              history |-> a.history, sent |-> <<req>>]
    ELSE [result |-> Pair(Strip(be.reply.content),
                          be.reply["eval_count"] + Get(be.reply, "prompt_eval_count", 0),
                          "none"),
          history |-> a.history, sent |-> <<req>>]

\* resp.get("prompt_eval_count", 0) + resp.get("eval_count", 0)
usage_of(resp) == Get(resp, "prompt_eval_count", 0) + Get(resp, "eval_count", 0)

\* a slip that would keep the buffer on the instance, shared by its calls
accumulate_on_instance(a, resp) == ans[1] \o ans[2] \o resp["message"]["content"]

\* a slip that would yield the delta instead of the full buffer
accumulate_delta(a, resp) == resp["message"]["content"]

\* ans += resp["message"]["content"]
accumulate(a, resp) == a \o resp["message"]["content"]

\* a slip that would drop the text streamed before the failure
stream_error_no_buffer(a, e) == <<"\n", ERROR_MARK>> \o Str(e)

\* ans + "\n**ERROR**: " + str(e)
stream_error(a, e) == a \o <<"\n", ERROR_MARK>> \o Str(e)

\* chat_streamly up to its try: the rewrite, the image loop, the options
chat_streamly_prologue(self, system, hist, gen_conf, image) ==
    LET r == rewrite_last(system, hist) IN
    IF r.exc # "none" THEN [exc |-> r.exc, history |-> r.history, sent |-> <<>>]
    ELSE
    LET a == attach_images(r.history, 1, image) IN
    IF a.exc # "none" THEN [exc |-> a.exc, history |-> a.history, sent |-> <<>>]
    ELSE [exc |-> "none", history |-> a.history,
          sent |-> <<ChatRequest(self, a.history, gen_conf, TRUE)>>]

\* a slip that would end the stream after the done-marked chunk
chat_streamly_fetch_until_done(a, n, be) ==
    IF n >= 1 /\ be.chunks[n]["done"]
        THEN [gpos |-> "zero", ans |-> a, consumed |-> n, ev |-> IntEv(0)]
    ELSE IF n < Len(be.chunks)
        THEN LET resp == be.chunks[n + 1] IN
             IF resp["done"]
                 THEN [gpos |-> "usage", ans |-> a, consumed |-> n + 1,
                       ev |-> IntEv(usage_of(resp))]
                 ELSE [gpos |-> "text", ans |-> accumulate(a, resp), consumed |-> n + 1,
                       ev |-> TextEv(accumulate(a, resp))]
    ELSE IF be.raises
        THEN [gpos |-> "error", ans |-> a, consumed |-> n,
              ev |-> TextEv(stream_error(a, BackendError))]
    ELSE [gpos |-> "zero", ans |-> a, consumed |-> n, ev |-> IntEv(0)]

\* a slip that would keep the buffer and the cursor of the last stream
chat_streamly_fetch_resumed(a, n, be) ==
    IF consumed < Len(be.chunks)
        THEN LET resp == be.chunks[consumed + 1] IN
             IF resp["done"]
                 THEN [gpos |-> "usage", ans |-> ans, consumed |-> consumed + 1,
                       ev |-> IntEv(usage_of(resp))]
                 ELSE [gpos |-> "text", ans |-> accumulate(ans, resp),
                       consumed |-> consumed + 1,
                       ev |-> TextEv(accumulate(ans, resp))]
    ELSE IF be.raises
        THEN [gpos |-> "error", ans |-> ans, consumed |-> consumed,
              ev |-> TextEv(stream_error(ans, BackendError))]
    ELSE [gpos |-> "zero", ans |-> ans, consumed |-> consumed, ev |-> IntEv(0)]

\* chat_streamly from "take the next item of response" to the next yield
chat_streamly_fetch(a, n, be) ==
    IF n < Len(be.chunks)
        THEN LET resp == be.chunks[n + 1] IN
             IF resp["done"]
                 THEN [gpos |-> "usage", ans |-> a, consumed |-> n + 1,
                       ev |-> IntEv(usage_of(resp))]
                 ELSE [gpos |-> "text", ans |-> accumulate(a, resp), consumed |-> n + 1,
                       ev |-> TextEv(accumulate(a, resp))]
    ELSE IF be.raises
        THEN [gpos |-> "error", ans |-> a, consumed |-> n,
              ev |-> TextEv(stream_error(a, BackendError))]
    ELSE [gpos |-> "zero", ans |-> a, consumed |-> n, ev |-> IntEv(0)]

----------------------------------------------------------------------------
(* Inputs *)

X == <<"X">>
Y == <<"Y">>
S == <<"S">>

Roles == {"user", "assistant", "system"}

\* conversation turns; a turn may lack a key
Turns ==
    {[role |-> r, content |-> c] : r \in Roles, c \in {X, Y}}
        \cup {[role |-> "user"]} \cup {[content |-> X]}

Histories == SeqsUpTo(Turns, MaxTurns)

Systems == {<<>>, S}

KnobNames == ForwardedKnobs \cup {"max_tokens"}

KnobValue ==
    [temperature |-> 1, top_p |-> 2, presence_penalty |-> 3,
     frequency_penalty |-> 4, max_tokens |-> 5]

GenConfs == {[k \in ks |-> KnobValue[k]] : ks \in SUBSET KnobNames}

Prompts == {<<>>, <<"P">>}

CountDicts ==
    {EmptyDict, "prompt_eval_count" :> 3, "eval_count" :> 2,
     ("prompt_eval_count" :> 3) @@ ("eval_count" :> 2)}

Hel == <<"Hel">>
lo == <<"lo">>

Chunks ==
    {[message |-> [content |-> t], done |-> FALSE] : t \in {Hel, lo}}
        \cup {[message |-> [content |-> t], done |-> TRUE] @@ c :
                 t \in {<<>>, lo}, c \in CountDicts}

Replies ==
    {[raises |-> TRUE, content |-> <<>>]}
        \cup {[raises |-> FALSE, content |-> t] @@ c :
                 t \in {<<"ok">>, <<" ", "ok", " ">>}, c \in CountDicts}

\* the image representations of the contract calls: one short file
Images == {[kind |-> k, data |-> <<77>>, pos |-> 0] : k \in {"BytesIO", "bytes", "PIL"}}

\* the process of the contract calls: nothing set, every package installed
OptionalPackages == {"ollama", "google.generativeai", "anthropic"}

PlainWorld ==
    [environ |-> EmptyDict, files |-> EmptyDict, installed |-> OptionalPackages]

OkReply == [raises |-> FALSE, content |-> <<"ok">>] @@ ("eval_count" :> 2)

OllamaInst == [cls |-> "OllamaCV", model_name |-> "model-x", lang |-> "Chinese"]

BaseCase ==
    [inst |-> OllamaInst, system |-> <<>>,
     history |-> <<[role |-> "user", content |-> X]>>,
     gen_conf |-> EmptyDict, image |-> [kind |-> "bytes", data |-> <<77>>, pos |-> 0],
     prompt |-> <<>>,
     backend |-> [chunks |-> <<[message |-> [content |-> Hel], done |-> FALSE]>>,
                  raises |-> FALSE, reply |-> OkReply]]

\* the calls of the model: each family varies some arguments over their full
\* set and holds the others at the base case
HistoryCases ==
    {[BaseCase EXCEPT !.history = h, !.system = s] : h \in Histories, s \in Systems}

OptionCases == {[BaseCase EXCEPT !.gen_conf = g] : g \in GenConfs}

StreamCases ==
    {[BaseCase EXCEPT !.backend.chunks = cs, !.backend.raises = r] :
        cs \in SeqsUpTo(Chunks, MaxChunks), r \in BOOLEAN}

InstanceCases ==
    {[BaseCase EXCEPT !.inst = i, !.prompt = p, !.image = im, !.backend.reply = r] :
        i \in Instances, p \in Prompts, im \in Images, r \in Replies}

Scenarios == HistoryCases \cup OptionCases \cup StreamCases \cup InstanceCases

----------------------------------------------------------------------------
(* The state machine: one call on a constructed instance *)

Init ==
    \E sc \in Scenarios :
        /\ inst = sc.inst
        /\ args = [system |-> sc.system, history |-> sc.history,
                   gen_conf |-> sc.gen_conf, image |-> sc.image, prompt |-> sc.prompt]
        /\ backend = sc.backend
        /\ history = sc.history
        /\ op = "none"
        /\ result = NoResult
        /\ sent = <<>>
        /\ gpos = "none"
        /\ ans = <<>>
        /\ consumed = 0
        /\ events = <<>>
        /\ img = sc.image
        /\ world = PlainWorld
        /\ constructed = <<sc.inst.cls>>
        /\ NltkIdle

\* attribute lookup on the instance fails: the class has no such method
NoSuchMethod(name) ==
    /\ name \notin Methods(inst.cls)
    /\ op' = name
    /\ result' = Raised("AttributeError")
    /\ UNCHANGED <<inst, args, backend, history, sent, gpos, ans, consumed, events>>
    /\ UNCHANGED <<fvars, nvars>>

Call_describe ==
    /\ op = "none"
    /\ \/ NoSuchMethod("describe")
       \/ /\ inst.cls = "OllamaCV"
          /\ LET r == OllamaCV_describe(inst, img, backend) IN
             /\ op' = "describe"
             /\ result' = r.result
             /\ sent' = sent \o r.sent
          /\ UNCHANGED <<inst, args, backend, history, gpos, ans, consumed, events>>
          /\ UNCHANGED <<fvars, nvars>>

Call_describe_with_prompt ==
    /\ op = "none"
    /\ LET r == IF inst.cls = "OllamaCV"
                    THEN OllamaCV_describe_with_prompt(inst, img, args.prompt, backend)
                    ELSE QWenCV_describe_with_prompt(inst, img, args.prompt, backend)
       IN  /\ op' = "describe_with_prompt"
           /\ result' = r.result
           /\ sent' = sent \o r.sent
           /\ img' = IF inst.cls = "OllamaCV" THEN img ELSE r.image
    /\ UNCHANGED <<inst, args, backend, history, gpos, ans, consumed, events>>
    /\ UNCHANGED <<world, constructed, nvars>>

Call_chat ==
    /\ op = "none"
    /\ \/ NoSuchMethod("chat")
       \/ /\ inst.cls = "OllamaCV"
          /\ LET r == OllamaCV_chat(inst, args.system, history, args.gen_conf,
                                    img, backend)
             IN  /\ op' = "chat"
                 /\ result' = r.result
                 /\ history' = r.history
                 /\ sent' = sent \o r.sent
          /\ UNCHANGED <<inst, args, backend, gpos, ans, consumed, events>>
          /\ UNCHANGED <<fvars, nvars>>

\* calling a generator function runs none of its body
Call_chat_streamly ==
    /\ op = "none"
    /\ \/ NoSuchMethod("chat_streamly")
       \/ /\ inst.cls = "OllamaCV"
          /\ op' = "chat_streamly"
          /\ gpos' = "created"
          /\ UNCHANGED <<inst, args, backend, history, result, sent, ans, consumed, events>>
          /\ UNCHANGED <<fvars, nvars>>

\* the first next(): the prologue, the open, and on to the first yield
Gen_first ==
    /\ gpos = "created"
    /\ LET p == chat_streamly_prologue(inst, args.system, history, args.gen_conf,
                                       img)
       IN  /\ history' = p.history
           /\ sent' = sent \o p.sent
           /\ IF p.exc # "none"
                 THEN /\ gpos' = "raised"
                      /\ result' = Raised(p.exc)
                      /\ UNCHANGED <<ans, consumed, events>>
                 ELSE LET f == chat_streamly_fetch(<<>>, 0, backend) IN
                      /\ gpos' = f.gpos
                      /\ ans' = f.ans
                      /\ consumed' = f.consumed
                      /\ events' = Append(events, f.ev)
                      /\ UNCHANGED result
    /\ UNCHANGED <<inst, args, backend, op>>
    /\ UNCHANGED <<fvars, nvars>>

\* a later next(): resume after the yield the generator is suspended at
Gen_next ==
    /\ gpos \in {"usage", "text", "error", "zero"}
    /\ CASE gpos = "usage" ->
                LET a == accumulate(ans, backend.chunks[consumed]) IN
                /\ ans' = a
                /\ events' = Append(events, TextEv(a))
                /\ gpos' = "text"
                /\ UNCHANGED consumed
         [] gpos = "text" ->
                LET f == chat_streamly_fetch(ans, consumed, backend) IN
                /\ gpos' = f.gpos
                /\ ans' = f.ans
                /\ consumed' = f.consumed
                /\ events' = Append(events, f.ev)
         [] gpos = "error" ->
                /\ events' = Append(events, IntEv(0))
                /\ gpos' = "zero"
                /\ UNCHANGED <<ans, consumed>>
         [] gpos = "zero" ->
                /\ gpos' = "finished"
                /\ UNCHANGED <<ans, consumed, events>>
    /\ UNCHANGED <<inst, args, backend, history, op, result, sent>>
    /\ UNCHANGED <<fvars, nvars>>

Next ==
    \/ Call_describe
    \/ Call_describe_with_prompt
    \/ Call_chat
    \/ Call_chat_streamly
    \/ Gen_first
    \/ Gen_next

Spec == Init /\ [][Next]_vars

----------------------------------------------------------------------------
(* Vocabulary of the properties *)

IsPrefix(s, t) == Len(s) <= Len(t) /\ SubSeq(t, 1, Len(s)) = s

ContractOps == {"describe", "describe_with_prompt", "chat", "chat_streamly"}

ChatOps == {"chat", "chat_streamly"}

\* the text of chunks 1..i, in arrival order
RECURSIVE ConcatTexts(_, _)
ConcatTexts(cs, i) ==
    IF i = 0 THEN <<>> ELSE ConcatTexts(cs, i - 1) \o cs[i]["message"]["content"]

Count(c, k) == IF k \in DOMAIN c THEN c[k] ELSE 0

\* the stream reached the backend: the prologue raised nothing
StreamOpened == op = "chat_streamly" /\ sent # <<>>

StreamEnded == gpos \in {"finished", "raised"}

Hello == <<"Hel", "lo">>

----------------------------------------------------------------------------
(* C1 *)

C1Pre ==
    /\ StreamOpened
    /\ ~backend.raises
    /\ Len(backend.chunks) >= 1
    /\ \A i \in 1..Len(backend.chunks) :
          backend.chunks[i]["done"] <=> i = Len(backend.chunks)

C1Expected ==
    LET cs == backend.chunks
        n == Len(cs)
    IN  [i \in 1..(n - 1) |-> TextEv(ConcatTexts(cs, i))]
            \o <<IntEv(Count(cs[n], "prompt_eval_count") + Count(cs[n], "eval_count")),
                 TextEv(ConcatTexts(cs, n)),
                 IntEv(0)>>

\* C1: when the backend delivers c1..cn without error and exactly cn is marked
\* done, the stream yields text(c1), text(c1c2), ..., text(c1..c(n-1)), then the
\* integer cn.prompt_eval_count + cn.eval_count (a missing count is 0), then
\* text(c1..cn), then the integer 0, and nothing else: what has been yielded
\* is at every moment a prefix of that sequence, and the whole of it once the
\* stream is exhausted.
C1_StreamEventOrder ==
    C1Pre =>
        /\ gpos # "raised"
        /\ IsPrefix(events, C1Expected)
        /\ (gpos = "finished" => events = C1Expected)

C1_Witness ==
    /\ C1Pre
    /\ gpos = "finished"
    /\ backend.chunks =
          <<[message |-> [content |-> Hel], done |-> FALSE],
            [message |-> [content |-> lo], done |-> FALSE],
            [message |-> [content |-> <<>>], done |-> TRUE,
             prompt_eval_count |-> 3, eval_count |-> 2]>>
    /\ events = <<TextEv(Hel), TextEv(Hello), IntEv(5), TextEv(Hello), IntEv(0)>>

----------------------------------------------------------------------------
(* C2 *)

\* C2: every fully consumed chat_streamly stream, whatever the system prompt,
\* the conversation (an empty one included), the options and the backend's
\* behaviour, ends with the integer 0 as its last event, emitted once (the
\* event before it, if there is one, is a text event), and never with an
\* exception instead.
C2_TerminalZero ==
    StreamEnded =>
        /\ gpos = "finished"
        /\ events # <<>>
        /\ events[Len(events)] = IntEv(0)
        /\ (Len(events) >= 2 => events[Len(events) - 1].kind = "text")

----------------------------------------------------------------------------
(* C3 *)

\* the events of chunks 1..i applied without error
RECURSIVE Emitted(_, _)
Emitted(cs, i) ==
    IF i = 0 THEN <<>>
    ELSE Emitted(cs, i - 1)
            \o (IF cs[i]["done"]
                   THEN <<IntEv(Count(cs[i], "prompt_eval_count")
                                + Count(cs[i], "eval_count"))>>
                   ELSE <<>>)
            \o <<TextEv(ConcatTexts(cs, i))>>

C3Pre == StreamOpened /\ backend.raises

C3Expected ==
    LET cs == backend.chunks
        k == Len(cs)
    IN  Emitted(cs, k)
            \o <<TextEv(ConcatTexts(cs, k) \o <<"\n">> \o <<"**ERROR**: ">>
                            \o <<BackendError>>),
                 IntEv(0)>>

\* C3: when the backend raises while the stream is opened or iterated, after
\* k >= 0 chunks were applied, nothing is raised to the caller; the events of
\* those k chunks stay as they were, the next event is the text
\* buffer + "\n" + "**ERROR**: " + cause, and the one after it is the integer 0,
\* which ends the stream.
C3_StreamErrorInBand ==
    C3Pre =>
        /\ gpos # "raised"
        /\ result.kind # "raise"
        /\ IsPrefix(events, C3Expected)
        /\ (gpos = "finished" => events = C3Expected)

C3_Witness ==
    /\ C3Pre
    /\ gpos = "finished"
    /\ backend.chunks = <<[message |-> [content |-> Hel], done |-> FALSE]>>
    /\ events = <<TextEv(Hel),
                  TextEv(<<"Hel", "\n", "**ERROR**: ", BackendError>>),
                  IntEv(0)>>

----------------------------------------------------------------------------
(* C4 *)

\* C4: no failure during a describe, describe_with_prompt, chat or
\* chat_streamly call on a constructed backend reaches the caller as an
\* exception, for any input (an empty conversation with a system prompt, a
\* turn without content, a caller-supplied prompt): the call returns, or the
\* stream yields, sentinel output instead.
C4_NoExceptionEscapes ==
    op \in Methods(inst.cls) => result.kind # "raise" /\ gpos # "raised"

----------------------------------------------------------------------------
(* C5 *)

\* the failure text of the stream: the event yielded by the except branch
StreamErrorEvent == events[IF gpos = "error" THEN Len(events) ELSE Len(events) - 1]

\* C5: whenever an operation of any backend reports a failure in-band, the
\* reported text begins with the marker "**ERROR**: " followed by the cause,
\* and the usage count that accompanies it is 0: for describe,
\* describe_with_prompt and chat, and for the error text event of
\* chat_streamly.
C5_SentinelShape ==
    /\ (result.kind \in {"pair", "bare"} /\ result.caught # "none") =>
          /\ result.text = <<"**ERROR**: ">> \o <<result.caught>>
          /\ result.kind = "pair"
          /\ result.usage = 0
    /\ (StreamOpened /\ backend.raises /\ gpos \in {"error", "zero", "finished"}) =>
          /\ StreamErrorEvent.kind = "text"
          /\ Head(StreamErrorEvent.v) = "**ERROR**: "

----------------------------------------------------------------------------
(* C6, C7, C8: the request chat and chat_streamly send *)

ChatSent == op \in ChatOps /\ sent # <<>>

UserTurns(h) == {i \in 1..Len(h) : Get(h[i], "role", "absent") = "user"}

\* the index of the conversation's last user turn, 0 when it has none
LastUser(h) ==
    IF UserTurns(h) = {} THEN 0
    ELSE CHOOSE i \in UserTurns(h) : \A j \in UserTurns(h) : j <= i

ContentOf(t) == Get(t, "content", "absent")

\* C6: with a non-empty system prompt the content sent for the conversation's
\* last user turn is system + C + "user query: " + C, C being that turn's
\* original content, and the content of every other turn is sent unchanged,
\* whatever the role of the final turn; with an empty system prompt no content
\* is changed.
C6_RewriteLastUserTurn ==
    ChatSent =>
        LET msgs == sent[1].messages
            orig == args.history
        IN  /\ Len(msgs) = Len(orig)
            /\ \A i \in 1..Len(orig) :
                  ContentOf(msgs[i]) =
                      IF args.system # <<>> /\ i = LastUser(orig)
                          THEN args.system \o ContentOf(orig[i]) \o <<"user query: ">>
                                   \o ContentOf(orig[i])
                          ELSE ContentOf(orig[i])

\* C7: in the message list sent to the backend at most one turn carries an
\* image attachment, and it is the conversation's last user turn: no earlier
\* user turn and no assistant or system turn carries one.
C7_OnlyLastUserTurnHasImage ==
    ChatSent =>
        \A i \in 1..Len(sent[1].messages) :
            "images" \in DOMAIN sent[1].messages[i] => i = LastUser(args.history)

RecognizedKnobs == {"temperature", "top_p", "presence_penalty", "frequency_penalty"}

\* C8: the options forwarded to the backend are exactly the caller's entries
\* for temperature, top_p, presence_penalty and frequency_penalty, each under
\* its own name with the caller's value; nothing else is forwarded.
C8_OptionsForwardedAsGiven ==
    ChatSent =>
        sent[1].options =
            [k \in (DOMAIN args.gen_conf) \cap RecognizedKnobs |-> args.gen_conf[k]]

----------------------------------------------------------------------------
(* C9, C10 *)

\* C9: every backend variant of the provider registry exposes describe,
\* describe_with_prompt, chat and chat_streamly: asking an instance of any
\* registered class for one of the four never fails for want of the method.
C9_AllFourOperations ==
    op \in ContractOps => op \in Methods(inst.cls) /\ result # Raised("AttributeError")

\* C10: for every backend variant describe_with_prompt returns a pair
\* (text, usage) with usage an integer >= 0, on success and on failure (usage
\* 0 then); never a bare text.
C10_DescribeWithPromptPair ==
    op = "describe_with_prompt" =>
        /\ result.kind = "pair"
        /\ result.usage \in Nat
        /\ (result.caught # "none" => result.usage = 0)

----------------------------------------------------------------------------
(* C11 *)

\* C11: describe(image) on a backend whose transport call succeeds returns
\* the backend's response text, trimmed, with a usage count, the prompt being
\* the default one of prompt(); sentinel error output is returned only when
\* the backend call itself fails.
C11_DescribeReturnsResponse ==
    (op = "describe" /\ op \in Methods(inst.cls) /\ ~backend.reply.raises) =>
        /\ result.kind = "pair"
        /\ result.caught = "none"
        /\ result.text = Strip(backend.reply.content)
        /\ result.usage \in Nat
        /\ Len(sent) = 1

----------------------------------------------------------------------------
(* The factory: VisionModelFactory and create_vision_model *)

NoInst == [cls |-> "none"]

NoExc == [type |-> "none", msg |-> <<>>]

Exc(t, m) == [type |-> t, msg |-> m]

\* list(VisionModelFactory._PROVIDERS.keys()), in the order of the dict
ProviderList == <<"openai", "qwen", "zhipu", "ollama", "gemini", "anthropic">>

\* the package each class needs at construction, beyond the module's own imports
NeededPackage ==
    [OllamaCV |-> "ollama", GeminiCV |-> "google.generativeai",
     AnthropicCV |-> "anthropic"]

\* model_name defaults of the constructors' signatures
CtorDefaultModel ==
    [GptV4 |-> "gpt-4-vision-preview", QWenCV |-> "qwen-vl-max",
     Zhipu4V |-> "glm-4v", GeminiCV |-> "gemini-pro-vision",
     AnthropicCV |-> "claude-3-sonnet-20240229"]

\* the endpoint the client of a hosted class talks to
BuiltinEndpoint ==
    [GptV4 |-> "openai-default",
     QWenCV |-> "https://dashscope.aliyuncs.com/compatible-mode/v1",
     Zhipu4V |-> "zhipuai-default", GeminiCV |-> "genai-default",
     AnthropicCV |-> "anthropic-default"]

\* OllamaCV.__init__ with the optional import missing, had it no guard
construct_unguarded(cls, key, model_name, kwargs, installed) ==
    IF cls = "OllamaCV"
        THEN [exc |-> NoExc,
              inst |-> [cls |-> cls, model_name |-> model_name,
                        lang |-> Get(kwargs, "lang", "Chinese"),
                        endpoint |-> Get(kwargs, "base_url", "http://localhost:11434")]]
        ELSE [exc |-> NoExc,
              inst |-> [cls |-> cls, key |-> key, model_name |-> model_name,
                        lang |-> Get(kwargs, "lang", "Chinese"),
                        endpoint |-> BuiltinEndpoint[cls]]]

\* model_class(api_key, model_name, **kwargs): the six __init__ methods
construct(cls, key, model_name, kwargs, installed) ==
    IF cls = "OllamaCV" THEN
        IF "ollama" \notin installed
            THEN [exc |-> Exc("ImportError", <<"Ollama client not installed">>),
                  inst |-> NoInst]
            ELSE [exc |-> NoExc,
                  inst |-> [cls |-> cls, model_name |-> model_name,
                            lang |-> Get(kwargs, "lang", "Chinese"),
                            endpoint |-> Get(kwargs, "base_url",
                                             "http://localhost:11434")]]
    ELSE IF cls \in DOMAIN NeededPackage /\ NeededPackage[cls] \notin installed
        THEN [exc |-> Exc("ImportError", <<"No module named ", NeededPackage[cls]>>),
              inst |-> NoInst]
    ELSE [exc |-> NoExc,
          inst |-> [cls |-> cls, key |-> key, model_name |-> model_name,
                    lang |-> Get(kwargs, "lang", "Chinese"),
                    endpoint |-> BuiltinEndpoint[cls]]]

\* if not model_name: if provider == "openai": ... (no branch for ollama)
default_model_name(provider) ==
    CASE provider = "openai" -> "gpt-4-vision-preview"
      [] provider = "qwen" -> "qwen-vl-max"
      [] provider = "zhipu" -> "glm-4v"
      [] provider = "gemini" -> "gemini-pro-vision"
      [] provider = "anthropic" -> "claude-3-sonnet-20240229"
      [] OTHER -> ""

\* a slip that would construct a default backend for an unknown provider
create_model_fallback(config, installed) ==
    LET c == construct("GptV4", Get(config, "api_key", ""),
                       "gpt-4-vision-preview", EmptyDict, installed)
    IN  [exc |-> c.exc, inst |-> c.inst, constructed |-> <<"GptV4">>]

\* VisionModelFactory.create_model
create_model(config, installed) ==
    LET provider == Lower(Get(config, "provider", "openai"))
        given == Get(config, "model_name", "")
        api_key == Get(config, "api_key", "")
        lang == Get(config, "lang", "Chinese")
        base_url == Get(config, "base_url", "")
    IN  IF provider \notin DOMAIN _PROVIDERS
            THEN [exc |-> Exc("ValueError", <<"unsupported provider: ", provider>>),
                  inst |-> NoInst, constructed |-> <<>>]
        ELSE
        LET model_class == _PROVIDERS[provider]
            model_name == IF given = "" THEN default_model_name(provider) ELSE given
            kwargs == IF base_url # ""
                          THEN ("lang" :> lang) @@ ("base_url" :> base_url)
                          ELSE ("lang" :> lang)
            c == construct(model_class, api_key, model_name, kwargs, installed)
        IN  [exc |-> c.exc, inst |-> c.inst, constructed |-> <<model_class>>]

EnvNames ==
    [provider |-> "DEEPDOC_VISION_PROVIDER", model_name |-> "DEEPDOC_VISION_MODEL",
     api_key |-> "DEEPDOC_VISION_API_KEY", lang |-> "DEEPDOC_VISION_LANG",
     base_url |-> "DEEPDOC_VISION_BASE_URL"]

\* a slip that would make another provider the default of the environment path
create_from_env_other_default(environ, installed) ==
    create_model(
        [provider |-> Get(environ, EnvNames.provider, "qwen"),
         model_name |-> Get(environ, EnvNames.model_name, ""),
         api_key |-> Get(environ, EnvNames.api_key, ""),
         lang |-> Get(environ, EnvNames.lang, "Chinese"),
         base_url |-> Get(environ, EnvNames.base_url, "")],
        installed)

\* VisionModelFactory.create_from_env
create_from_env(environ, installed) ==
    create_model(
        [provider |-> Get(environ, EnvNames.provider, "openai"),
         model_name |-> Get(environ, EnvNames.model_name, ""),
         api_key |-> Get(environ, EnvNames.api_key, ""),
         lang |-> Get(environ, EnvNames.lang, "Chinese"),
         base_url |-> Get(environ, EnvNames.base_url, "")],
        installed)

\* what yaml.safe_load returns: None for an empty document or value, or a mapping
Null == [kind |-> "null"]
Mapping(d) == [kind |-> "map", v |-> d]

\* VisionModelFactory.create_from_config_file: every exception of the body
\* comes back as ValueError("Failed to load config from ...: ...")
create_from_config_file(config_file, files, installed) ==
    LET failed(e, made) ==
            [exc |-> Exc("ValueError",
                         <<"Failed to load config from ", config_file, ": ">> \o e.msg),
             inst |-> NoInst, constructed |-> made]
    IN  IF config_file \notin DOMAIN files
            THEN failed(Exc("FileNotFoundError", <<"No such file: ", config_file>>), <<>>)
        ELSE IF files[config_file].kind = "garbage"
            THEN failed(Exc("YAMLError", <<"could not parse">>), <<>>)
        ELSE IF files[config_file].doc.kind # "map"
            THEN failed(Exc("AttributeError", <<"no attribute 'get'">>), <<>>)
        ELSE LET vision_config == Get(files[config_file].doc.v, "vision_model",
                                      Mapping(EmptyDict))
             IN  IF vision_config.kind # "map"
                     THEN failed(Exc("AttributeError", <<"no attribute 'get'">>), <<>>)
                 ELSE LET r == create_model(vision_config.v, installed)
                      IN  IF r.exc # NoExc THEN failed(r.exc, r.constructed) ELSE r

\* str.endswith(('.yaml', '.yml', '.json')) on the strings of the model
EndsWithConfigExt(str) == str \in {"cfg.yaml", "cfg.yml", "cfg.json"}

InvalidConfig(str) ==
    Exc("ValueError", <<"invalid config: ", str, ". supported providers: ">> \o ProviderList)

\* a slip that would read only strings with a recognized extension as paths
create_vision_model_ext_only(config, w) ==
    IF config.shape = "none" THEN create_from_env(w.environ, w.installed)
    ELSE IF config.shape = "str" THEN
        IF Lower(config.str) \in DOMAIN _PROVIDERS
            THEN create_model(("provider" :> Lower(config.str)), w.installed)
        ELSE IF EndsWithConfigExt(config.str)
            THEN create_from_config_file(config.str, w.files, w.installed)
        ELSE [exc |-> InvalidConfig(config.str), inst |-> NoInst, constructed |-> <<>>]
    ELSE IF config.shape = "dict" THEN create_model(config.dict, w.installed)
    ELSE [exc |-> Exc("ValueError", <<"unsupported config type: ", config.shape>>),
          inst |-> NoInst, constructed |-> <<>>]

\* a slip that would let the environment's provider override a mapping's
create_vision_model_env_wins(config, w) ==
    IF config.shape = "none" THEN create_from_env(w.environ, w.installed)
    ELSE IF config.shape = "str" THEN
        IF Lower(config.str) \in DOMAIN _PROVIDERS
            THEN create_model(("provider" :> Lower(config.str)), w.installed)
        ELSE IF EndsWithConfigExt(config.str)
            THEN create_from_config_file(config.str, w.files, w.installed)
        ELSE LET r == create_from_config_file(config.str, w.files, w.installed) IN
             IF r.exc # NoExc
                 THEN [exc |-> InvalidConfig(config.str), inst |-> NoInst,
                       constructed |-> r.constructed]
                 ELSE r
    ELSE IF config.shape = "dict"
        THEN create_model(
                 IF EnvNames.provider \in DOMAIN w.environ
                     THEN SetKey(config.dict, "provider", w.environ[EnvNames.provider])
                     ELSE config.dict,
                 w.installed)
    ELSE [exc |-> Exc("ValueError", <<"unsupported config type: ", config.shape>>),
          inst |-> NoInst, constructed |-> <<>>]

\* create_vision_model; config is tagged by its type: None, a str, a dict, another
create_vision_model(config, w) ==
    IF config.shape = "none" THEN create_from_env(w.environ, w.installed)
    ELSE IF config.shape = "str" THEN
        IF Lower(config.str) \in DOMAIN _PROVIDERS
            THEN create_model(("provider" :> Lower(config.str)), w.installed)
        ELSE IF EndsWithConfigExt(config.str)
            THEN create_from_config_file(config.str, w.files, w.installed)
        ELSE LET r == create_from_config_file(config.str, w.files, w.installed) IN
             IF r.exc # NoExc
                 THEN [exc |-> InvalidConfig(config.str), inst |-> NoInst,
                       constructed |-> r.constructed]
                 ELSE r
    ELSE IF config.shape = "dict" THEN create_model(config.dict, w.installed)
    ELSE [exc |-> Exc("ValueError", <<"unsupported config type: ", config.shape>>),
          inst |-> NoInst, constructed |-> <<>>]

----------------------------------------------------------------------------
(* The calls of the factory *)

\* provider identifiers as a caller may write them
ProviderSpellings == (DOMAIN _PROVIDERS) \cup {"QWEN", "Ollama", "bogus"}

OptKey(k, vals) == {EmptyDict} \cup {(k :> v) : v \in vals}

\* configuration mappings: every key is optional
Configs ==
    {p @@ m @@ k @@ l @@ b :
        p \in OptKey("provider", ProviderSpellings),
        m \in OptKey("model_name", {"", "m1"}),
        k \in OptKey("api_key", {"k1"}),
        l \in OptKey("lang", {"English"}),
        b \in OptKey("base_url", {"", "http://h:1"})}

\* the environment that sets the variables of a mapping
EnvOf(c) == [n \in {EnvNames[k] : k \in DOMAIN c} |->
                c[CHOOSE k \in DOMAIN c : EnvNames[k] = n]]

Environs == {EnvOf(c) : c \in Configs}

SomeEnvirons ==
    {EmptyDict,
     EnvOf(("provider" :> "zhipu")),
     EnvOf([provider |-> "ollama", model_name |-> "m2", api_key |-> "k2",
            lang |-> "English", base_url |-> "http://e:2"])}

Paths == {"cfg.yaml", "cfg.json", "cfg"}

ConfigStrings == ProviderSpellings \cup Paths

FileContents ==
    {[kind |-> "garbage"], [kind |-> "yaml", doc |-> Null],
     [kind |-> "yaml", doc |-> Mapping(EmptyDict)],
     [kind |-> "yaml", doc |-> Mapping(("vision_model" :> Null))]}
    \cup {[kind |-> "yaml", doc |-> Mapping(("vision_model" :> Mapping(c)))] :
            c \in OptKey("provider", ProviderSpellings)
                  \cup {[provider |-> "qwen", model_name |-> "m1", api_key |-> "k1",
                         lang |-> "English", base_url |-> "http://h:1"]}}

\* file systems with at most one file; a file may bear a provider's name
FileSystems ==
    {EmptyDict} \cup {(f :> c) : f \in Paths \cup {"qwen"}, c \in FileContents}

Installs == {OptionalPackages, {}}

NoConfig == [shape |-> "none"]
StrConfig(str) == [shape |-> "str", str |-> str]
DictConfig(d) == [shape |-> "dict", dict |-> d]
OtherConfig == [shape |-> "int"]

DictCalls ==
    {[config |-> DictConfig(c),
      world |-> [environ |-> e, files |-> EmptyDict, installed |-> i]] :
        c \in Configs, e \in SomeEnvirons, i \in Installs}

EnvCalls ==
    {[config |-> NoConfig,
      world |-> [environ |-> e, files |-> EmptyDict, installed |-> i]] :
        e \in Environs, i \in Installs}

StrCalls ==
    {[config |-> StrConfig(str),
      world |-> [environ |-> EmptyDict, files |-> f, installed |-> i]] :
        str \in ConfigStrings, f \in FileSystems, i \in Installs}

OtherCalls == {[config |-> OtherConfig, world |-> PlainWorld]}

FactoryCalls == DictCalls \cup EnvCalls \cup StrCalls \cup OtherCalls

InitFactory ==
    \E fc \in FactoryCalls :
        /\ inst = NoInst
        /\ args = [config |-> fc.config]
        /\ world = fc.world
        /\ constructed = <<>>
        /\ op = "none"
        /\ result = NoResult
        /\ backend = BaseCase.backend
        /\ history = <<>>
        /\ sent = <<>>
        /\ gpos = "none"
        /\ ans = <<>>
        /\ consumed = 0
        /\ events = <<>>
        /\ img = BaseCase.image
        /\ NltkIdle

\* what the caller of a factory function gets
Outcome(r) ==
    IF r.exc = NoExc THEN [kind |-> "instance"]
    ELSE [kind |-> "raise", exc |-> r.exc.type, msg |-> r.exc.msg]

Returns(name, r) ==
    /\ op' = name
    /\ result' = Outcome(r)
    /\ inst' = r.inst
    /\ constructed' = r.constructed
    /\ UNCHANGED <<args, world, backend, history, sent, gpos, ans, consumed,
                   events, img, nvars>>

Call_create_vision_model ==
    /\ op = "none"
    /\ Returns("create_vision_model", create_vision_model(args.config, world))

Call_create_model ==
    /\ op = "none"
    /\ args.config.shape = "dict"
    /\ Returns("create_model", create_model(args.config.dict, world.installed))

Call_create_from_env ==
    /\ op = "none"
    /\ args.config.shape = "none"
    /\ Returns("create_from_env", create_from_env(world.environ, world.installed))

Call_create_from_config_file ==
    /\ op = "none"
    /\ args.config.shape = "str"
    /\ Returns("create_from_config_file",
               create_from_config_file(args.config.str, world.files, world.installed))

NextFactory ==
    \/ Call_create_vision_model
    \/ Call_create_model
    \/ Call_create_from_env
    \/ Call_create_from_config_file

SpecFactory == InitFactory /\ [][NextFactory]_vars

----------------------------------------------------------------------------
(* Vocabulary of the factory properties *)

Registered(p) == Lower(p) \in DOMAIN _PROVIDERS

FactoryOps ==
    {"create_vision_model", "create_model", "create_from_env",
     "create_from_config_file"}

\* the call reads its string as a file
ReadsFile ==
    /\ args.config.shape = "str"
    /\ op = "create_from_config_file" \/ ~Registered(args.config.str)

FileOpens == args.config.str \in DOMAIN world.files

FileParses == FileOpens /\ world.files[args.config.str].kind = "yaml"

\* the file holds a mapping whose vision_model section, if any, is a mapping
FileHasSection ==
    /\ FileParses
    /\ world.files[args.config.str].doc.kind = "map"
    /\ Get(world.files[args.config.str].doc.v, "vision_model",
           Mapping(EmptyDict)).kind = "map"

FileSection ==
    Get(world.files[args.config.str].doc.v, "vision_model", Mapping(EmptyDict)).v

\* the variables of the environment, under the keys of a configuration
EnvSettings ==
    [k \in {x \in DOMAIN EnvNames : EnvNames[x] \in DOMAIN world.environ} |->
        world.environ[EnvNames[k]]]

\* the settings that reach the factory, whatever their shape; none when the
\* file that should hold them has no section to read
HasRequest == op \in FactoryOps /\ args.config.shape \in {"none", "str", "dict"}
                 /\ (ReadsFile => FileHasSection)

Requested ==
    CASE args.config.shape = "dict" -> args.config.dict
      [] args.config.shape = "none" -> EnvSettings
      [] args.config.shape = "str" /\ ReadsFile -> FileSection
      [] OTHER -> ("provider" :> args.config.str)

RequestedProvider == Get(Requested, "provider", "openai")

\* a bare string that names neither a provider nor a file of the file system
BareUnknownString ==
    /\ op = "create_vision_model" /\ args.config.shape = "str"
    /\ ~Registered(args.config.str) /\ ~EndsWithConfigExt(args.config.str)
    /\ ~FileOpens

UnregisteredRequest ==
    \/ HasRequest /\ ~Registered(RequestedProvider)
    \/ BareUnknownString

Mentions(msg, p) == \E i \in DOMAIN msg : msg[i] = p

AllInstalled == world.installed = OptionalPackages

----------------------------------------------------------------------------
(* C12 *)

\* C12: create_model with a configuration that sets only the provider, a
\* registered identifier in any letter case, succeeds with an instance of that
\* provider's backend whose model name is the provider's default, a non-empty
\* name for every provider.
C12_MinimalConfigGetsDefaultModel ==
    (/\ op = "create_model"
     /\ DOMAIN args.config.dict = {"provider"}
     /\ Registered(args.config.dict.provider)
     /\ AllInstalled) =>
        /\ result.kind = "instance"
        /\ inst.cls = _PROVIDERS[Lower(args.config.dict.provider)]
        /\ inst.model_name # ""
        /\ inst.cls \in DOMAIN CtorDefaultModel =>
               inst.model_name = CtorDefaultModel[inst.cls]

----------------------------------------------------------------------------
(* C13 *)

\* C13: whenever the provider that reaches the factory is not in the registry,
\* as a mapping, through the environment, in a configuration file or as a bare
\* string, creation fails with an error whose message names every registered
\* provider identifier.
C13_UnknownProviderErrorListsRegistry ==
    UnregisteredRequest =>
        /\ result.kind = "raise"
        /\ \A p \in DOMAIN _PROVIDERS : Mentions(result.msg, p)

----------------------------------------------------------------------------
(* C14 *)

\* C14: a configuration whose provider is not a registered key is rejected
\* before anything is built: on every path through create_vision_model and the
\* factory's class methods no backend constructor is invoked, no instance is
\* returned, and the caller gets an error.
C14_UnknownProviderBuildsNothing ==
    UnregisteredRequest =>
        /\ constructed = <<>>
        /\ inst = NoInst
        /\ result.kind = "raise"

\* a configuration file that names an unregistered provider has been refused
C14_Witness ==
    /\ op = "create_vision_model"
    /\ ReadsFile /\ FileHasSection
    /\ "provider" \in DOMAIN FileSection /\ ~Registered(FileSection.provider)
    /\ result.kind = "raise"
    /\ constructed = <<>>

----------------------------------------------------------------------------
(* C15 *)

\* C15: when create_vision_model is given a mapping, the environment has no
\* effect: under every other setting of the DEEPDOC_VISION_* variables the same
\* mapping yields the same outcome and the same instance (provider, model name,
\* key, language, endpoint), and the backend built is the mapping's provider's.
C15_MappingIgnoresEnvironment ==
    (op = "create_vision_model" /\ args.config.shape = "dict") =>
        /\ \A e \in Environs :
              LET r == create_vision_model(args.config, [world EXCEPT !.environ = e])
              IN  r.inst = inst /\ Outcome(r) = result
        /\ result.kind = "instance" =>
              inst.cls = _PROVIDERS[Lower(Get(args.config.dict, "provider", "openai"))]

\* a mapping for qwen has been resolved while the environment names zhipu
C15_Witness ==
    /\ op = "create_vision_model" /\ args.config.shape = "dict"
    /\ Get(args.config.dict, "provider", "") = "qwen"
    /\ Get(world.environ, EnvNames.provider, "") = "zhipu"
    /\ inst.cls = "QWenCV"

----------------------------------------------------------------------------
(* C16 *)

\* what the mapping that sets only provider p resolves to
Reference(p) == create_model(("provider" :> p), world.installed)

\* the call sets a registered provider and nothing else, in whatever shape
ProviderOnly ==
    /\ op = "create_vision_model" /\ HasRequest
    /\ DOMAIN Requested = {"provider"}
    /\ Registered(RequestedProvider)

\* C16: the four input shapes resolve alike: for a registered provider P, the
\* environment that sets only the provider variable, the string P, a
\* configuration file whose vision_model section sets only provider P, and the
\* mapping that sets only provider P all give an instance of the same backend
\* with the same model name, key, language and endpoint; with nothing set at
\* all, the absent configuration resolves to the default provider, openai.
C16_ShapesResolveAlike ==
    /\ ProviderOnly =>
          /\ inst = Reference(RequestedProvider).inst
          /\ Reference(RequestedProvider).exc = NoExc =>
                /\ result.kind = "instance"
                /\ inst.cls = _PROVIDERS[Lower(RequestedProvider)]
    /\ (op = "create_vision_model" /\ args.config.shape = "none"
            /\ world.environ = EmptyDict) =>
          /\ result.kind = "instance"
          /\ inst = Reference("openai").inst
          /\ inst.cls = "GptV4"

\* a configuration file whose section sets only provider zhipu has been resolved
C16_Witness ==
    /\ op = "create_vision_model"
    /\ ReadsFile /\ FileHasSection
    /\ FileSection = ("provider" :> "zhipu")
    /\ inst.cls = "Zhipu4V"
    /\ inst = Reference("zhipu").inst

----------------------------------------------------------------------------
(* C17 *)

\* C17 as stated: a string that matches no registered provider is read as a
\* configuration file, and creation fails if and only if the file cannot be
\* opened or parsed.
C17_PathFailsIffUnreadable ==
    (op = "create_vision_model" /\ args.config.shape = "str"
        /\ ~Registered(args.config.str)) =>
        (result.kind = "raise" <=> ~FileParses)

\* C17 amended: a string that matches no registered provider is read as a
\* configuration file, with or without a recognized extension; creation fails
\* if and only if the file cannot be opened or parsed, holds no mapping, or no
\* backend can be built from its vision_model section, and otherwise yields
\* the backend built from that section. A string equal to a provider
\* identifier is never read as a path, whatever files exist.
C17_PathFailsIffNoBackend ==
    (op = "create_vision_model" /\ args.config.shape = "str") =>
        IF Registered(args.config.str)
            THEN /\ inst = Reference(args.config.str).inst
                 /\ constructed = <<_PROVIDERS[Lower(args.config.str)]>>
            ELSE LET builds == /\ FileHasSection
                               /\ create_model(FileSection, world.installed).exc = NoExc
                 IN  /\ result.kind = "raise" <=> ~builds
                     /\ builds =>
                            inst = create_model(FileSection, world.installed).inst

\* a file without a recognized extension has been read and gave a backend
C17_Witness ==
    /\ op = "create_vision_model" /\ args.config.shape = "str"
    /\ args.config.str = "cfg"
    /\ FileHasSection
    /\ result.kind = "instance"
    /\ inst.cls = "QWenCV"

----------------------------------------------------------------------------
(* C18 *)

RequestedClass == _PROVIDERS[Lower(RequestedProvider)]

\* the requested backend needs a package that is not installed
MissingDependency ==
    /\ HasRequest /\ Registered(RequestedProvider)
    /\ RequestedClass \in DOMAIN NeededPackage
    /\ NeededPackage[RequestedClass] \notin world.installed

\* C18: a backend whose optional dependency is missing fails at construction:
\* the constructor is entered and raises an import error, the factory raises
\* and returns no instance (the import error itself, or a ValueError carrying
\* it when the configuration came from a file), so the failure is never
\* sentinel text or a working object.
C18_MissingDependencyRaises ==
    MissingDependency =>
        /\ constructed = <<RequestedClass>>
        /\ construct(RequestedClass, "", "", EmptyDict, world.installed).exc.type
               = "ImportError"
        /\ result.kind = "raise"
        /\ inst = NoInst
        /\ result.exc = IF ReadsFile THEN "ValueError" ELSE "ImportError"

\* create_model has refused to build the ollama backend without its package
C18_Witness ==
    /\ MissingDependency
    /\ op = "create_model"
    /\ RequestedProvider = "ollama"
    /\ result.kind = "raise" /\ result.exc = "ImportError"
    /\ Mentions(result.msg, "Ollama client not installed")

----------------------------------------------------------------------------
(* C19 *)

\* C19: for every registered provider, a non-empty base_url in the
\* configuration becomes the endpoint the constructed instance's client talks
\* to.
C19_BaseUrlOverridesEndpoint ==
    (HasRequest /\ result.kind = "instance" /\ Get(Requested, "base_url", "") # "") =>
        inst.endpoint = Requested.base_url

----------------------------------------------------------------------------
(* Image normalization on its own: repeated calls on one caller-owned image *)

ByteValues == {0, 77, 255}

\* every representation of every short file, a stream at any read position
AllImages ==
    {[kind |-> "BytesIO", data |-> d, pos |-> p] :
        d \in SeqsUpTo(ByteValues, MaxBytes), p \in 0..MaxBytes}
    \cup {[kind |-> k, data |-> d, pos |-> 0] :
            k \in {"bytes", "PIL"}, d \in SeqsUpTo(ByteValues, MaxBytes)}

InitImage ==
    \E im \in AllImages :
        /\ im.pos <= Len(im.data)
        /\ img = im
        /\ args = [image |-> im]
        /\ inst = OllamaInst
        /\ world = PlainWorld
        /\ constructed = <<OllamaInst.cls>>
        /\ op = "none"
        /\ result = NoResult
        /\ backend = BaseCase.backend
        /\ history = <<>>
        /\ sent = <<>>
        /\ gpos = "none"
        /\ ans = <<>>
        /\ consumed = 0
        /\ events = <<>>
        /\ NltkIdle

\* self.image2base64(image) on the caller's object, as every describe* does first
Call_image2base64 ==
    /\ Len(events) < MaxCalls
    /\ LET r == image2base64(img)
           out == IF r.exc = "none" THEN [kind |-> "b64", b64 |-> r.b64]
                  ELSE Raised(r.exc)
       IN  /\ op' = "image2base64"
           /\ result' = out
           /\ events' = Append(events, out)
           /\ img' = r.after
    /\ UNCHANGED <<inst, args, backend, history, sent, gpos, ans, consumed,
                   world, constructed, nvars>>

NextImage == Call_image2base64

SpecImage == InitImage /\ [][NextImage]_vars

----------------------------------------------------------------------------
(* C20 *)

\* C20: the same image given as a stream at read position 0, as a stream at a
\* non-zero read position, as raw bytes or as a decoded image object is
\* normalized to the same base64 payload, the encoding of its bytes, and
\* normalizing the same object again yields that payload again.
C20_SamePayloadForEveryRepresentation ==
    \A i \in DOMAIN events :
        /\ events[i].kind = "b64"
        /\ events[i].b64 = b64encode(args.image.data)

----------------------------------------------------------------------------
(* C21 *)

\* C21: for every registered provider, the instance create_model returns for a
\* configuration with api_key K, model_name M and language L carries exactly
\* those values as its key, model_name and lang.
C21_InstanceCarriesConfig ==
    (/\ op = "create_model" /\ result.kind = "instance"
     /\ {"provider", "api_key", "model_name", "lang"} \subseteq DOMAIN args.config.dict
     /\ args.config.dict.model_name # "") =>
        /\ "key" \in DOMAIN inst
        /\ inst.key = args.config.dict.api_key
        /\ inst.model_name = args.config.dict.model_name
        /\ inst.lang = args.config.dict.lang

----------------------------------------------------------------------------
(* C22 *)

\* what vision_llm_describe_prompt() renders: the text of the Chinese template
ChineseDefaultPrompt == <<"vision_llm_describe_prompt.md">>

\* the prompt of the first request on the wire, as a value
SentPrompt ==
    IF sent[1].call = "generate"
        THEN [kind |-> "str", text |-> sent[1].prompt]
        ELSE sent[1].prompt

\* C22: in describe_with_prompt the prompt text sent to the backend is the
\* caller's prompt when one is supplied; when it is omitted it is the Chinese
\* default prompt text for an instance whose language is Chinese (in any
\* letter case) and "Please describe this image in detail." otherwise.
C22_PromptSentToBackend ==
    (op = "describe_with_prompt" /\ args.image.kind # "PIL") =>
        /\ result.kind # "raise"
        /\ Len(sent) = 1
        /\ SentPrompt =
              IF args.prompt # <<>>
                  THEN [kind |-> "str", text |-> args.prompt]
              ELSE IF Lower(inst.lang) = "chinese"
                  THEN [kind |-> "str", text |-> ChineseDefaultPrompt]
              ELSE [kind |-> "str", text |-> <<"Please describe this image in detail.">>]

----------------------------------------------------------------------------
(* Two callers on one instance: every call is a frame of its own locals *)

Threads == {1, 2}

DoneChunk == [message |-> [content |-> lo], done |-> TRUE, eval_count |-> 2]
TextChunk == [message |-> [content |-> Hel], done |-> FALSE]

\* the calls of the first caller
ThreadCalls ==
    {[method |-> "chat_streamly", system |-> sy,
      history |-> <<[role |-> "user", content |-> X]>>, gen_conf |-> EmptyDict,
      backend |-> [BaseCase.backend EXCEPT !.chunks = cs, !.raises = r]] :
        sy \in Systems, cs \in SeqsUpTo({TextChunk, DoneChunk}, MaxChunks),
        r \in BOOLEAN}
    \cup {[method |-> m, system |-> sy, history |-> h, gen_conf |-> EmptyDict,
           backend |-> [BaseCase.backend EXCEPT !.reply = r]] :
            m \in {"chat", "describe"}, sy \in Systems,
            h \in {<<>>, <<[role |-> "user", content |-> X]>>},
            r \in {OkReply, [raises |-> TRUE, content |-> <<>>]}}

\* the calls of the second caller, on a conversation of their own
OtherThreadCalls ==
    {[method |-> "chat_streamly", system |-> S,
      history |-> <<[role |-> "user", content |-> Y]>>,
      gen_conf |-> [temperature |-> 1],
      backend |-> [BaseCase.backend EXCEPT !.chunks = <<TextChunk, DoneChunk>>,
                                           !.raises = r]] : r \in BOOLEAN}
    \cup {[method |-> m, system |-> S,
           history |-> <<[role |-> "user", content |-> Y]>>,
           gen_conf |-> [temperature |-> 1],
           backend |-> [BaseCase.backend EXCEPT !.reply = OkReply]] :
            m \in {"chat", "describe"}}

InitConcurrent ==
    \E c1 \in ThreadCalls, c2 \in OtherThreadCalls :
        LET call == <<c1, c2>> IN
        /\ inst = OllamaInst
        /\ img = BaseCase.image
        /\ world = PlainWorld
        /\ constructed = <<OllamaInst.cls>>
        /\ args = [t \in Threads |->
                      [method |-> call[t].method, system |-> call[t].system,
                       history |-> call[t].history, gen_conf |-> call[t].gen_conf]]
        /\ backend = [t \in Threads |-> call[t].backend]
        /\ history = [t \in Threads |-> call[t].history]
        /\ op = [t \in Threads |-> "none"]
        /\ result = [t \in Threads |-> NoResult]
        /\ sent = [t \in Threads |-> <<>>]
        /\ gpos = [t \in Threads |-> "none"]
        /\ ans = [t \in Threads |-> <<>>]
        /\ consumed = [t \in Threads |-> 0]
        /\ events = [t \in Threads |-> <<>>]
        /\ NltkIdle

\* the caller enters the method; for chat_streamly this only makes the generator
T_enter(t) ==
    /\ op[t] = "none"
    /\ op' = [op EXCEPT ![t] = args[t].method]
    /\ gpos' = [gpos EXCEPT ![t] =
                   IF args[t].method = "chat_streamly" THEN "created" ELSE "entered"]
    /\ UNCHANGED <<inst, args, backend, history, result, sent, ans, consumed, events>>
    /\ UNCHANGED <<fvars, nvars>>

T_chat(t) ==
    /\ op[t] = "chat" /\ gpos[t] = "entered"
    /\ LET r == OllamaCV_chat(inst, args[t].system, history[t], args[t].gen_conf,
                              img, backend[t])
       IN  /\ result' = [result EXCEPT ![t] = r.result]
           /\ history' = [history EXCEPT ![t] = r.history]
           /\ sent' = [sent EXCEPT ![t] = @ \o r.sent]
    /\ gpos' = [gpos EXCEPT ![t] = "returned"]
    /\ UNCHANGED <<inst, args, backend, op, ans, consumed, events>>
    /\ UNCHANGED <<fvars, nvars>>

T_describe(t) ==
    /\ op[t] = "describe" /\ gpos[t] = "entered"
    /\ LET r == OllamaCV_describe(inst, img, backend[t])
       IN  /\ result' = [result EXCEPT ![t] = r.result]
           /\ sent' = [sent EXCEPT ![t] = @ \o r.sent]
    /\ gpos' = [gpos EXCEPT ![t] = "returned"]
    /\ UNCHANGED <<inst, args, backend, history, op, ans, consumed, events>>
    /\ UNCHANGED <<fvars, nvars>>

\* the first next() of the caller's generator
T_first(t) ==
    /\ gpos[t] = "created"
    /\ LET p == chat_streamly_prologue(inst, args[t].system, history[t],
                                       args[t].gen_conf, img)
       IN  /\ history' = [history EXCEPT ![t] = p.history]
           /\ sent' = [sent EXCEPT ![t] = @ \o p.sent]
           /\ IF p.exc # "none"
                 THEN /\ gpos' = [gpos EXCEPT ![t] = "raised"]
                      /\ result' = [result EXCEPT ![t] = Raised(p.exc)]
                      /\ UNCHANGED <<ans, consumed, events>>
                 ELSE LET f == chat_streamly_fetch(<<>>, 0, backend[t]) IN
                      /\ gpos' = [gpos EXCEPT ![t] = f.gpos]
                      /\ ans' = [ans EXCEPT ![t] = f.ans]
                      /\ consumed' = [consumed EXCEPT ![t] = f.consumed]
                      /\ events' = [events EXCEPT ![t] = Append(@, f.ev)]
                      /\ UNCHANGED result
    /\ UNCHANGED <<inst, args, backend, op>>
    /\ UNCHANGED <<fvars, nvars>>

\* a later next() of the caller's generator
T_next(t) ==
    /\ gpos[t] \in {"usage", "text", "error", "zero"}
    /\ CASE gpos[t] = "usage" ->
                LET a == accumulate(ans[t], backend[t].chunks[consumed[t]]) IN
                /\ ans' = [ans EXCEPT ![t] = a]
                /\ events' = [events EXCEPT ![t] = Append(@, TextEv(a))]
                /\ gpos' = [gpos EXCEPT ![t] = "text"]
                /\ UNCHANGED consumed
         [] gpos[t] = "text" ->
                LET f == chat_streamly_fetch(ans[t], consumed[t], backend[t]) IN
                /\ gpos' = [gpos EXCEPT ![t] = f.gpos]
                /\ ans' = [ans EXCEPT ![t] = f.ans]
                /\ consumed' = [consumed EXCEPT ![t] = f.consumed]
                /\ events' = [events EXCEPT ![t] = Append(@, f.ev)]
         [] gpos[t] = "error" ->
                /\ events' = [events EXCEPT ![t] = Append(@, IntEv(0))]
                /\ gpos' = [gpos EXCEPT ![t] = "zero"]
                /\ UNCHANGED <<ans, consumed>>
         [] gpos[t] = "zero" ->
                /\ gpos' = [gpos EXCEPT ![t] = "finished"]
                /\ UNCHANGED <<ans, consumed, events>>
    /\ UNCHANGED <<inst, args, backend, history, op, result, sent>>
    /\ UNCHANGED <<fvars, nvars>>

NextConcurrent ==
    \E t \in Threads :
        \/ T_enter(t)
        \/ T_chat(t)
        \/ T_describe(t)
        \/ T_first(t)
        \/ T_next(t)

SpecConcurrent == InitConcurrent /\ [][NextConcurrent]_vars

----------------------------------------------------------------------------
(* C23 *)

\* the events of chunks 1..i: a done-marked chunk gives its usage, then every
\* chunk gives the text so far
RECURSIVE EventsUpTo(_, _)
EventsUpTo(cs, i) ==
    IF i = 0 THEN <<>>
    ELSE EventsUpTo(cs, i - 1)
            \o (IF cs[i]["done"]
                    THEN <<IntEv(Count(cs[i], "prompt_eval_count")
                                 + Count(cs[i], "eval_count"))>>
                    ELSE <<>>)
            \o <<TextEv(ConcatTexts(cs, i))>>

\* event sequences compared event by event, the runtime type first
EventsPrefix(es, fs) ==
    /\ Len(es) <= Len(fs)
    /\ \A i \in 1..Len(es) : es[i].kind = fs[i].kind /\ es[i].v = fs[i].v

SameEvents(es, fs) == Len(es) = Len(fs) /\ EventsPrefix(es, fs)

\* the whole stream of a backend script whose open succeeded
StreamEvents(be) ==
    EventsUpTo(be.chunks, Len(be.chunks))
        \o (IF be.raises
                THEN <<TextEv(ConcatTexts(be.chunks, Len(be.chunks))
                              \o <<"\n", ERROR_MARK, BackendError>>)>>
                ELSE <<>>)
        \o <<IntEv(0)>>

\* what caller t's call gives when it runs alone on the instance as constructed
AloneChat(t) ==
    OllamaCV_chat(OllamaInst, args[t].system, args[t].history, args[t].gen_conf,
                  BaseCase.image, backend[t]).result

AloneDescribe(t) == OllamaCV_describe(OllamaInst, BaseCase.image, backend[t]).result

AlonePrologue(t) ==
    chat_streamly_prologue(OllamaInst, args[t].system, args[t].history,
                           args[t].gen_conf, BaseCase.image)

\* C23: an instance holds no per-call state: in every interleaving of two
\* calls (chat, chat_streamly, describe) made on the same instance with
\* separate conversations, each call returns what it returns alone, each
\* stream yields the events it yields alone, and the instance's fields are
\* those it was constructed with.
C23_ConcurrentCallsRunAsAlone ==
    /\ inst = OllamaInst
    /\ \A t \in Threads :
          /\ (op[t] = "chat" /\ gpos[t] = "returned") => result[t] = AloneChat(t)
          /\ (op[t] = "describe" /\ gpos[t] = "returned") => result[t] = AloneDescribe(t)
          /\ op[t] = "chat_streamly" =>
                IF AlonePrologue(t).exc # "none"
                    THEN /\ events[t] = <<>>
                         /\ gpos[t] \in {"created", "raised"}
                         /\ gpos[t] = "raised" =>
                                result[t] = Raised(AlonePrologue(t).exc)
                    ELSE /\ gpos[t] # "raised"
                         /\ EventsPrefix(events[t], StreamEvents(backend[t]))
                         /\ gpos[t] = "finished" =>
                                SameEvents(events[t], StreamEvents(backend[t]))

\* both callers' streams have run to their end, interleaved event by event
C23_Witness ==
    /\ \A t \in Threads : op[t] = "chat_streamly" /\ gpos[t] = "finished"
    /\ \A t \in Threads : backend[t].chunks = <<TextChunk, DoneChunk>>
    /\ ~backend[1].raises /\ backend[2].raises
    /\ events[1] = <<TextEv(Hel), IntEv(2), TextEv(Hello), IntEv(0)>>
    /\ events[2] = <<TextEv(Hel), IntEv(2), TextEv(Hello),
                     TextEv(Hello \o <<"\n", ERROR_MARK, BackendError>>), IntEv(0)>>
    /\ inst = OllamaInst

----------------------------------------------------------------------------
(* One caller, two calls in a row on the same instance: the second call is
   made after the first returned, or after its stream was left where it was *)

SessionTurns == {[role |-> r, content |-> X] : r \in Roles}

SessionHistories == SeqsUpTo(SessionTurns, MaxTurns)

SessionScripts ==
    {[BaseCase.backend EXCEPT !.chunks = cs, !.raises = r] :
        cs \in {<<>>, <<TextChunk, DoneChunk>>}, r \in BOOLEAN}

FreshHistories == {<<[role |-> "user", content |-> Y]>>}

NoPrev == [op |-> "none"]

InitSession ==
    \E i \in {OllamaInst, [cls |-> "QWenCV", model_name |-> "model-x", lang |-> "English"]},
       sy \in Systems, h \in SessionHistories, be \in SessionScripts :
        /\ inst = i
        /\ args = [system |-> sy, history |-> h, gen_conf |-> EmptyDict,
                   image |-> BaseCase.image, prompt |-> <<>>,
                   calls |-> 1, fresh |-> TRUE, prev |-> NoPrev]
        /\ backend = be
        /\ history = h
        /\ op = "none"
        /\ result = NoResult
        /\ sent = <<>>
        /\ gpos = "none"
        /\ ans = <<>>
        /\ consumed = 0
        /\ events = <<>>
        /\ img = BaseCase.image
        /\ world = PlainWorld
        /\ constructed = <<i.cls>>
        /\ NltkIdle

\* the caller turns to a second call: with a fresh conversation, or with the
\* conversation object of the first call and the same system prompt. A stream
\* the caller leaves is not resumed; its frame keeps its buffer and cursor.
Call_again ==
    /\ args.calls = 1
    /\ op # "none"
    /\ \E fresh \in BOOLEAN, h \in FreshHistories, sy \in Systems :
          /\ fresh \/ sy = args.system
          /\ history' = IF fresh THEN h ELSE history
          /\ args' = [args EXCEPT !.calls = 2, !.fresh = fresh,
                                  !.system = sy,
                                  !.history = IF fresh THEN h ELSE history,
                                  !.prev = [op |-> op, gpos |-> gpos,
                                            pulled |-> Len(events),
                                            history |-> args.history]]
    /\ op' = "none"
    /\ gpos' = "none"
    /\ result' = NoResult
    /\ sent' = <<>>
    /\ events' = <<>>
    /\ UNCHANGED <<inst, backend, ans, consumed>>
    /\ UNCHANGED <<fvars, nvars>>

NextSession ==
    \/ Call_chat
    \/ Call_chat_streamly
    \/ Gen_first
    \/ Gen_next
    \/ Call_again

SpecSession == InitSession /\ [][NextSession]_vars

----------------------------------------------------------------------------
(* C24 *)

\* the second call, on a fresh conversation, follows a chat_streamly stream of
\* the same instance that the caller left after args.prev.pulled events
AfterAbandonedStream ==
    /\ args.calls = 2 /\ args.fresh
    /\ args.prev.op = "chat_streamly"
    /\ inst.cls = "OllamaCV"

\* what the current call does on a never-used instance
FreshChat ==
    OllamaCV_chat(OllamaInst, args.system, args.history, args.gen_conf,
                  BaseCase.image, backend)

FreshPrologue ==
    chat_streamly_prologue(OllamaInst, args.system, args.history, args.gen_conf,
                           BaseCase.image)

\* C24: leaving a chat_streamly stream after any number of pulled events, none
\* included, leaves the instance usable: a later chat or chat_streamly on the
\* same instance with a fresh conversation behaves as on a never-used
\* instance, with no buffer or cursor of the abandoned stream carried over.
C24_AbandonedStreamLeavesInstanceUsable ==
    AfterAbandonedStream =>
        /\ inst = OllamaInst
        /\ op = "chat" =>
              /\ result = FreshChat.result
              /\ history = FreshChat.history
              /\ sent = FreshChat.sent
        /\ op = "chat_streamly" =>
              IF gpos = "created" THEN events = <<>> /\ history = args.history
              ELSE /\ history = FreshPrologue.history
                   /\ sent = FreshPrologue.sent
                   /\ gpos # "raised"
                   /\ EventsPrefix(events, StreamEvents(backend))
                   /\ gpos = "finished" => SameEvents(events, StreamEvents(backend))

\* a stream left after its first text event, then a second stream run to its end
C24_Witness ==
    /\ AfterAbandonedStream
    /\ args.prev.gpos = "text" /\ args.prev.pulled = 1
    /\ op = "chat_streamly" /\ gpos = "finished"
    /\ ~backend.raises
    /\ events = <<TextEv(Hel), IntEv(2), TextEv(Hello), IntEv(0)>>

----------------------------------------------------------------------------
(* C29 *)

\* system + content + "user query: " + content
Rewritten(system, c) == system \o c \o <<"user query: ">> \o c

\* the body of the current call has run its first statements
PrologueRan == op = "chat" \/ (op = "chat_streamly" /\ gpos # "created")

\* the first call of the session had run them when the caller left it
PrevPrologueRan ==
    args.prev.op = "chat" \/ (args.prev.op = "chat_streamly" /\ args.prev.gpos # "created")

\* C29: chat and chat_streamly write into the caller's own conversation and
\* the change outlives the call. After a call with a non-empty system prompt
\* the conversation's final turn holds system + content + "user query: " +
\* content and every user turn holds the image; a second call with the same
\* conversation and system prompt rewrites the already rewritten content
\* again; chat_streamly writes nothing when the stream is created, only when
\* its first event is pulled.
C29_ConversationWrittenInPlace ==
    (inst.cls = "OllamaCV" /\ op \in ChatOps /\ args.system # <<>>
        /\ Len(args.history) >= 1) =>
        IF ~PrologueRan THEN history = args.history
        ELSE LET n == Len(args.history) IN
             /\ Len(history) = n
             /\ history[n]["content"] = Rewritten(args.system, args.history[n]["content"])
             /\ \A i \in 1..n :
                   /\ history[i]["role"] = args.history[i]["role"]
                   /\ history[i]["role"] = "user" =>
                         "images" \in DOMAIN history[i] /\ history[i]["images"] = <<img>>
             /\ (args.calls = 2 /\ ~args.fresh) =>
                   LET c == args.prev.history[n]["content"] IN
                   IF PrevPrologueRan
                       THEN /\ history[n]["content"] =
                                  Rewritten(args.system, Rewritten(args.system, c))
                            /\ history[n]["content"] # Rewritten(args.system, c)
                       ELSE history[n]["content"] = Rewritten(args.system, c)

\* the same conversation has gone through chat twice with system prompt S
C29_Witness ==
    /\ inst.cls = "OllamaCV"
    /\ args.calls = 2 /\ ~args.fresh /\ args.system = S
    /\ args.prev.op = "chat" /\ op = "chat"
    /\ Len(history) = 1
    /\ history[1]["content"] = Rewritten(S, Rewritten(S, X))
    /\ "images" \in DOMAIN history[1]
    /\ history[1]["images"] = <<img>>

----------------------------------------------------------------------------
(* C30 *)

CountKind(es, k) == Cardinality({i \in DOMAIN es : es[i].kind = k})

DoneChunks(cs) == Cardinality({i \in DOMAIN cs : cs[i]["done"]})

\* C30: chat_streamly does not stop at a done-marked chunk: every chunk the
\* backend delivers, before or after one, is accumulated and emitted as a text
\* event, each done-marked chunk gives its own usage event first, and the
\* stream ends only when the chunks are exhausted or the backend raises. So a
\* completed stream has as many integer events as done-marked chunks plus
\* one, and as many text events as chunks, plus one if the backend raised.
C30_StreamRunsPastDone ==
    StreamOpened =>
        /\ EventsPrefix(events, StreamEvents(backend))
        /\ gpos = "finished" =>
              /\ SameEvents(events, StreamEvents(backend))
              /\ consumed = Len(backend.chunks)
              /\ CountKind(events, "int") = DoneChunks(backend.chunks) + 1
              /\ CountKind(events, "text") =
                    Len(backend.chunks) + (IF backend.raises THEN 1 ELSE 0)

\* a stream whose done-marked chunk came first has run to its end
C30_Witness ==
    /\ StreamOpened /\ gpos = "finished"
    /\ ~backend.raises
    /\ backend.chunks = <<DoneChunk, TextChunk>>
    /\ Len(events) = 4
    /\ events[1] = IntEv(2) /\ events[2] = TextEv(lo)
    /\ events[3] = TextEv(lo \o Hel) /\ events[4] = IntEv(0)

----------------------------------------------------------------------------
(* nltk_manager: ensure_nltk_resource and require_nltk_data *)

\* (resource_path, download_name) pairs; the punkt package does not hold
\* tokenizers/punkt_tab
Punkt == [resource_path |-> "tokenizers/punkt", download_name |-> "punkt"]
PunktTab == [resource_path |-> "tokenizers/punkt_tab", download_name |-> "punkt"]
Stopwords == [resource_path |-> "corpora/stopwords", download_name |-> "stopwords"]

Resources == {Punkt, PunktTab, Stopwords}

ResourcePaths == {r.resource_path : r \in Resources}

DownloadNames == {r.download_name : r \in Resources}

\* what a successful nltk.download(download_name) installs
Provides(download_name) ==
    IF download_name = "punkt" THEN {"tokenizers/punkt"} ELSE {"corpora/stopwords"}

\* nltk.data.find(resource_path) returns; otherwise it raises LookupError
find(resource_path, data) == resource_path \in data

\* a slip that would forget the names already tried
already_tried_forgotten(download_name, tried) == FALSE

\* if download_name in _downloaded_resources
already_tried(download_name, tried) == download_name \in tried

\* a slip that would leave the loop at the first resource that is missing
next_resource_until_failure(resources, i, ok) ==
    IF ok /\ i < Len(resources) THEN i + 1 ELSE 0

\* for resource_path, download_name in resources: the next index, 0 at the end
next_resource(resources, i, ok) == IF i < Len(resources) THEN i + 1 ELSE 0

\* the arguments of the direct calls of ensure_nltk_resource in the model: two
\* resource paths of one download name
EnsureArgs == {Punkt, PunktTab}

EnsurePaths == {r.resource_path : r \in EnsureArgs}

\* the argument lists of require_nltk_data in the model
ResourceLists ==
    {<<Punkt>>, <<Stopwords, Punkt>>, <<PunktTab, Stopwords>>}

IdleFrame ==
    [pc |-> "idle", ncalls |-> 0, kind |-> "none", resources |-> <<>>, i |-> 0,
     missing |-> <<>>, results |-> <<>>,
     result |-> FALSE, hit |-> FALSE, located |-> FALSE, expect |-> {},
     outcome |-> [kind |-> "none"]]

\* the arguments of the ensure_nltk_resource call thread t is in
Key(t) == frames[t].resources[frames[t].i]

CvIdle ==
    /\ inst = NoInst
    /\ args = EmptyDict
    /\ backend = BaseCase.backend
    /\ history = <<>>
    /\ op = "none"
    /\ result = NoResult
    /\ sent = <<>>
    /\ gpos = "none"
    /\ ans = <<>>
    /\ consumed = 0
    /\ events = <<>>
    /\ img = BaseCase.image
    /\ world = PlainWorld
    /\ constructed = <<>>

InitNltk ==
    /\ CvIdle
    /\ _download_lock = 0
    /\ _downloaded_resources = {}
    /\ cache = EmptyDict
    /\ nltk_data = {}
    /\ frames = [t \in Threads |-> IdleFrame]
    /\ downloads = [calls |-> [n \in DownloadNames |-> 0], active |-> {}]
    /\ returned = EmptyDict

\* the calls made so far
Started == frames[1].ncalls + frames[2].ncalls

\* thread t enters a call of the given kind on the given resources
Enter(t, kind, rs) ==
    /\ Started < MaxEnsureCalls
    /\ frames' = [frames EXCEPT ![t] =
                     [IdleFrame EXCEPT !.pc = "lookup", !.ncalls = frames[t].ncalls + 1,
                                       !.kind = kind, !.resources = rs, !.i = 1,
                                       !.expect = Get(returned, rs[1], {})]]
    /\ UNCHANGED <<_download_lock, _downloaded_resources, cache, nltk_data,
                   downloads, returned>>
    /\ UNCHANGED cvars

\* thread t calls ensure_nltk_resource(resource_path, download_name)
N_ensure(t) ==
    /\ frames[t].pc = "idle"
    /\ \E r \in EnsureArgs : Enter(t, "ensure", <<r>>)

\* thread t calls a target wrapped by require_nltk_data(*resources)
N_wrapped(t) ==
    /\ frames[t].pc = "idle"
    /\ \E rs \in ResourceLists : Enter(t, "wrapped", rs)

\* the wrapper's loop after a call of ensure_nltk_resource gave ok: a direct
\* call ends; the wrapper notes a missing name, goes on to the next resource,
\* and at the end raises or calls the target
Continue(t, ok) ==
    LET f == frames[t]
        missing == IF ok THEN f.missing
                   ELSE Append(f.missing, Key(t).download_name)
        results == Append(f.results, ok)
        nxt == next_resource(f.resources, f.i, ok)
    IN  IF f.kind = "ensure"
            THEN [f EXCEPT !.pc = "done", !.results = results,
                           !.outcome = [kind |-> "value", v |-> ok]]
        ELSE IF nxt # 0
            THEN [f EXCEPT !.pc = "lookup", !.i = nxt, !.missing = missing,
                           !.results = results,
                           !.expect = Get(returned, f.resources[nxt], {})]
        ELSE IF missing # <<>>
            THEN [f EXCEPT !.pc = "done", !.missing = missing, !.results = results,
                           !.outcome = [kind |-> "raise", exc |-> "RuntimeError",
                                        names |-> missing]]
        ELSE [f EXCEPT !.pc = "done", !.results = results,
                       !.outcome = [kind |-> "invoked"]]

\* the lru_cache wrapper looks the arguments up; a hit returns the stored value
N_lookup(t) ==
    /\ frames[t].pc = "lookup"
    /\ IF Key(t) \in DOMAIN cache
          THEN /\ frames' = [frames EXCEPT ![t] =
                                [Continue(t, cache[Key(t)]) EXCEPT
                                    !.result = cache[Key(t)], !.hit = TRUE,
                                    !.located = find(Key(t).resource_path, nltk_data)]]
               /\ returned' = SetKey(returned, Key(t),
                                     Get(returned, Key(t), {}) \cup {cache[Key(t)]})
          ELSE /\ frames' = [frames EXCEPT ![t].pc = "find1", ![t].hit = FALSE]
               /\ UNCHANGED returned
    /\ UNCHANGED <<_download_lock, _downloaded_resources, cache, nltk_data, downloads>>
    /\ UNCHANGED cvars

\* the fast path: try nltk.data.find, return True
N_find1(t) ==
    /\ frames[t].pc = "find1"
    /\ frames' = IF find(Key(t).resource_path, nltk_data)
                     THEN [frames EXCEPT ![t].pc = "store", ![t].result = TRUE,
                                         ![t].located = TRUE]
                     ELSE [frames EXCEPT ![t].pc = "acquire"]
    /\ UNCHANGED <<_download_lock, _downloaded_resources, cache, nltk_data,
                   downloads, returned>>
    /\ UNCHANGED cvars

\* with _download_lock: blocks while another thread holds it
N_acquire(t) ==
    /\ frames[t].pc = "acquire"
    /\ _download_lock = 0
    /\ _download_lock' = t
    /\ frames' = [frames EXCEPT ![t].pc = "find2"]
    /\ UNCHANGED <<_downloaded_resources, cache, nltk_data, downloads, returned>>
    /\ UNCHANGED cvars

\* the second check, under the lock
N_find2(t) ==
    /\ frames[t].pc = "find2"
    /\ IF find(Key(t).resource_path, nltk_data)
          THEN /\ frames' = [frames EXCEPT ![t].pc = "store", ![t].result = TRUE,
                                           ![t].located = TRUE]
               /\ _download_lock' = 0
          ELSE /\ frames' = [frames EXCEPT ![t].pc = "tried"]
               /\ UNCHANGED _download_lock
    /\ UNCHANGED <<_downloaded_resources, cache, nltk_data, downloads, returned>>
    /\ UNCHANGED cvars

\* a name already tried returns False; otherwise nltk.download is invoked
N_tried(t) ==
    /\ frames[t].pc = "tried"
    /\ IF already_tried(Key(t).download_name, _downloaded_resources)
          THEN /\ frames' = [frames EXCEPT ![t].pc = "store", ![t].result = FALSE,
                                           ![t].located = FALSE]
               /\ _download_lock' = 0
               /\ UNCHANGED downloads
          ELSE /\ frames' = [frames EXCEPT ![t].pc = "downloading"]
               /\ downloads' = [calls |-> [downloads.calls EXCEPT
                                              ![Key(t).download_name] = @ + 1],
                                active |-> downloads.active \cup {t}]
               /\ UNCHANGED _download_lock
    /\ UNCHANGED <<_downloaded_resources, cache, nltk_data, returned>>
    /\ UNCHANGED cvars

\* nltk.download comes back: True with the package installed, False, or an
\* exception; the name is remembered and the function returns, leaving the with
N_downloaded(t) ==
    /\ frames[t].pc = "downloading"
    /\ \E how \in {"ok", "failed", "raised"} :
          LET data == IF how = "ok"
                          THEN nltk_data \cup Provides(Key(t).download_name)
                          ELSE nltk_data
          IN  /\ nltk_data' = data
              /\ frames' = [frames EXCEPT ![t].pc = "store",
                                          ![t].result = (how = "ok"),
                                          ![t].located =
                                              find(Key(t).resource_path, data)]
    /\ _downloaded_resources' = _downloaded_resources \cup {Key(t).download_name}
    /\ downloads' = [downloads EXCEPT !.active = @ \ {t}]
    /\ _download_lock' = 0
    /\ UNCHANGED <<cache, returned>>
    /\ UNCHANGED cvars

\* the lru_cache wrapper stores what the function returned and returns it to
\* the caller
N_store(t) ==
    /\ frames[t].pc = "store"
    /\ cache' = SetKey(cache, Key(t), frames[t].result)
    /\ returned' = SetKey(returned, Key(t),
                          Get(returned, Key(t), {}) \cup {frames[t].result})
    /\ frames' = [frames EXCEPT ![t] = Continue(t, frames[t].result)]
    /\ UNCHANGED <<_download_lock, _downloaded_resources, nltk_data, downloads>>
    /\ UNCHANGED cvars

\* the call is over and its frame is gone
N_return(t) ==
    /\ frames[t].pc = "done"
    /\ frames' = [frames EXCEPT ![t] = [IdleFrame EXCEPT !.ncalls = frames[t].ncalls]]
    /\ UNCHANGED <<_download_lock, _downloaded_resources, cache, nltk_data,
                   downloads, returned>>
    /\ UNCHANGED cvars

\* outside the program: someone installs or deletes a resource's files
Env_install ==
    /\ \E r \in EnsurePaths \ nltk_data : nltk_data' = nltk_data \cup {r}
    /\ UNCHANGED <<_download_lock, _downloaded_resources, cache, frames,
                   downloads, returned>>
    /\ UNCHANGED cvars

Env_remove ==
    /\ \E r \in nltk_data : nltk_data' = nltk_data \ {r}
    /\ UNCHANGED <<_download_lock, _downloaded_resources, cache, frames,
                   downloads, returned>>
    /\ UNCHANGED cvars

\* a step of thread t inside a call it has made
N_step(t) ==
    \/ N_lookup(t)
    \/ N_find1(t)
    \/ N_acquire(t)
    \/ N_find2(t)
    \/ N_tried(t)
    \/ N_downloaded(t)
    \/ N_store(t)
    \/ N_return(t)

NextNltk ==
    \/ \E t \in Threads : N_ensure(t) \/ N_step(t)
    \/ Env_install
    \/ Env_remove

SpecNltk == InitNltk /\ [][NextNltk]_vars

NextRequire == \E t \in Threads : N_wrapped(t) \/ N_step(t)

SpecRequire == InitNltk /\ [][NextRequire]_vars

\* every thread inside a call keeps being scheduled, and nltk.download returns
FairSpecNltk == SpecNltk /\ \A t \in Threads : WF_vars(N_step(t))

----------------------------------------------------------------------------
(* C25 *)

\* thread t is inside a call
InCall(t) == frames[t].pc # "idle"

\* thread t is between entering the with block and leaving it
InsideWith(t) == frames[t].pc \in {"find2", "tried", "downloading"}

\* nltk.download was invoked at most once for each name, and by one thread at a time
DownloadsOnceNoOverlap ==
    /\ \A n \in DownloadNames : downloads.calls[n] <= 1
    /\ Cardinality(downloads.active) <= 1

\* the lock is held by exactly the thread inside the with block, if any
LockFollowsWith ==
    \A t \in Threads : (_download_lock = t) <=> InsideWith(t)

\* C25: under any interleaving of threads calling ensure_nltk_resource,
\* nltk.download is invoked at most once per download_name, two downloads
\* never run at the same time, and every call that was started returns, the
\* returning thread not holding the download lock.
C25_DownloadOnceAndEveryCallReturns ==
    /\ [](DownloadsOnceNoOverlap /\ LockFollowsWith)
    /\ \A t \in Threads :
          InCall(t) ~> (frames[t].pc = "done" /\ _download_lock # t)

\* both threads asked for resources of the same download name, the first
\* download failed, and the second thread has returned without downloading
C25_Witness ==
    /\ downloads.calls["punkt"] = 1
    /\ nltk_data = {}
    /\ frames[1].ncalls = 1
    /\ frames[2].pc = "done"
    /\ frames[2].resources = <<PunktTab>>
    /\ ~frames[2].hit
    /\ frames[2].outcome = [kind |-> "value", v |-> FALSE]
    /\ Punkt \in DOMAIN cache
    /\ ~cache[Punkt]

----------------------------------------------------------------------------
(* C26 *)

\* thread t has just been handed the result of a direct call
EnsureReturned(t) == frames[t].pc = "done" /\ frames[t].kind = "ensure"

\* C26: whenever ensure_nltk_resource returns True, nltk.data.find locates the
\* resource at that moment, and all the callers that passed the same
\* (resource_path, download_name) were given the same result.
C26_TrueMeansLocatedAndCallersAgree ==
    /\ \A t \in Threads :
          (EnsureReturned(t) /\ frames[t].result) => frames[t].located
    /\ \A k \in DOMAIN returned : Cardinality(returned[k]) <= 1

----------------------------------------------------------------------------
(* C27 *)

\* the download names of the resources for which ensure_nltk_resource gave False
RECURSIVE MissingNames(_, _)
MissingNames(resources, results) ==
    IF resources = <<>> \/ results = <<>> THEN <<>>
    ELSE IF Head(results)
        THEN MissingNames(Tail(resources), Tail(results))
        ELSE <<Head(resources).download_name>>
                 \o MissingNames(Tail(resources), Tail(results))

\* the call of a wrapped target by thread t is over
WrappedOver(t) == frames[t].pc = "done" /\ frames[t].kind = "wrapped"

\* C27: a call of a target wrapped by require_nltk_data asks
\* ensure_nltk_resource for every listed resource; the target is invoked exactly
\* when every answer was True, and otherwise a RuntimeError is raised that names
\* the download_name of every resource whose answer was False.
C27_TargetRunsOnlyWithEveryResource ==
    \A t \in Threads :
        WrappedOver(t) =>
            LET f == frames[t]
            IN  /\ Len(f.results) = Len(f.resources)
                /\ f.outcome.kind \in {"invoked", "raise"}
                /\ (f.outcome.kind = "invoked") <=>
                       (\A i \in 1..Len(f.results) : f.results[i])
                /\ (f.outcome.kind = "raise") =>
                       /\ f.outcome.exc = "RuntimeError"
                       /\ f.outcome.names = MissingNames(f.resources, f.results)

\* a wrapped target whose first resource was missing went on to the second, which
\* was missing too, and raised with both names
C27_Witness ==
    \E t \in Threads :
        /\ WrappedOver(t)
        /\ frames[t].resources = <<PunktTab, Stopwords>>
        /\ frames[t].results = <<FALSE, FALSE>>
        /\ frames[t].outcome.kind = "raise"
        /\ frames[t].outcome.names = <<"punkt", "stopwords">>
        /\ downloads.calls["stopwords"] = 1

----------------------------------------------------------------------------
(* C28 *)

\* C28: a direct call that began after a call with the same arguments had
\* returned is answered from the cache, without nltk.data.find or a download,
\* with the value every such earlier call returned, whatever has been installed
\* or removed since; and no download name is downloaded a second time.
C28_ResultIsFinal ==
    /\ \A t \in Threads :
          (EnsureReturned(t) /\ frames[t].expect # {}) =>
              /\ frames[t].hit
              /\ \A v \in frames[t].expect : frames[t].result = v
    /\ \A n \in DownloadNames : downloads.calls[n] <= 1

====
